---- MODULE Spec2Model ----
(***************************************************************************)
(* czecs: the install and upgrade commands (cmd/install.go of the latest   *)
(* revision, cmd/upgrade.go), the waiter options of util/waiter.go, and    *)
(* the ECS gateway they drive.  One behaviour is one invocation of the     *)
(* command line tool: the flags and arguments are chosen in Init, every    *)
(* gateway call is one step whose reply is chosen by the gateway, and      *)
(* every poll round of a waiter is one step.                               *)
(***************************************************************************)
EXTENDS Integers, Sequences, FiniteSets, TLC

VARIABLES
    cmd,                \* "install", "upgrade", "register" or "task"
    args,               \* positional arguments (cobra args)
    rollback,           \* --rollback
    deregister,         \* --deregister (upgrade)
    taskDefinitionArn,  \* --task-definition-arn ("" when not given)
    timeout,            \* --timeout, seconds (install)
    dryRun,             \* --dry-run (register)
    logLevel,           \* the log level RunE sets from --debug and --quiet
    strict,             \* --strict
    template,           \* the task definition template read from the file
    pc,                 \* position of the command in run
    oldTaskDefinition,  \* run's oldTaskDefinition (Null when nil)
    taskDefnArn,        \* run's taskDefnArn
    err,                \* run's err: the result of the forward deploy
    rollbackErr,        \* run's rollbackErr
    result,             \* what RunE returned (NotReturned while running)
    waiter,             \* the request.Waiter of the wait in progress
    lastResp,           \* req.Data of the waiter's last DescribeServices
    sleeps,             \* the durations the waiter has slept, in seconds
    describeServicesOutput, \* run's describeServicesOutput
    service,            \* gateway: the service of the requested name
    events,             \* gateway: the service's event log
    registered,         \* gateway: task definitions currently registered
    now,                \* the clock, in ticks
    calls,              \* gateway calls issued so far, in order
    tasks,              \* gateway: the task instances started by RunTask
    runTaskOutput,      \* runTask's runTaskOutput
    describeTasksOutput, \* runTask's describeTasksOutput
    output,             \* what the command has printed on standard output
    parsed,             \* what ParseTaskDefinition returned
    deployOutput        \* deployInstall / deployUpgrade: the clock read before the
                        \* call and the Deployments of the gateway's output

vars == <<cmd, args, rollback, deregister, taskDefinitionArn, timeout, dryRun,
          logLevel, strict, template, pc,
          oldTaskDefinition, taskDefnArn, err, rollbackErr, result, waiter,
          lastResp, sleeps, describeServicesOutput, service, events,
          registered, now, calls, tasks, runTaskOutput, describeTasksOutput,
          output, parsed, deployOutput>>

flags == <<cmd, args, rollback, deregister, taskDefinitionArn, timeout, dryRun,
           logLevel, strict, template>>

\* the state of the one-shot task run, of the standard output and of the
\* template rendering
aside == <<tasks, runTaskOutput, describeTasksOutput, output, parsed, deployOutput>>

-----------------------------------------------------------------------------
(* Bounds of the model *)

\* attempts of one wait that the model follows when the budget is unbounded
MaxPolls == 3
\* events the gateway appends to the event log during one invocation
MaxEvents == 2
\* clock ticks per second: time.Time is finer than the Unix seconds of the cutoff
TicksPerSecond == 2
\* the --timeout values tried are 0 and k * defaultDelay / 2 for k = 1 .. MaxTimeoutHalves
MaxTimeoutHalves == 3
\* attempts of a waiter that was given no WithWaiterMaxAttempts (the SDK's
\* value is 40 for the service waiters and 100 for the task waiter)
DefaultMaxAttempts == 3
\* the largest Count of a RunTask input
MaxTasks == 2
\* the containers of the task definition that is run
NumContainers == 2

-----------------------------------------------------------------------------
(* Values *)

Null == "null"
NoTime == -1

ServiceName == "svc"
ServiceArn == "arn:svc"
Cluster == "cluster"
TaskDefnFile == "task_definition.json"

OldArn == "td:old"      \* what the existing service runs
NewArn == "td:new"      \* what RegisterTaskDefinition returns
GivenArn == "td:given"  \* a definition named by --task-definition-arn
JsonArn == "td:json"    \* the TaskDefinition of the RunTask input in the task file
TaskFile == "task.json"
Rendered == "RegisterTaskDefinitionInput"  \* the parsed definition printed with %#v
NoExit == -1            \* a container's ExitCode when it is nil

\* event messages, as the words they are made of
MsgUnable == <<"was", "unable", "to", "place", "a", "task">>
MsgSteady == <<"has", "reached", "a", "steady", "state">>

\* errors: msg is the innermost message, wrap the errors.Wrap prefix (if any),
\* id the index in calls of the gateway call that produced the error
Nil == [msg |-> "", wrap |-> "", id |-> 0]
NotReturned == [msg |-> "running", wrap |-> "", id |-> 0]
Error(m, i) == [msg |-> m, wrap |-> "", id |-> i]
\* an error whose message names a task and one of its containers
TaskError(m, i, t, c) == [msg |-> m, wrap |-> "", id |-> i, task |-> t, container |-> c]
Wrap(e, w) == [e EXCEPT !.wrap = w]

NoWaiter == [name |-> "none", attempt |-> 0, maxAttempts |-> 0,
             defaultDelay |-> 0, lastDelay |-> 0, failOnAbort |-> FALSE,
             createdAt |-> NoTime, phase |-> "none", matched |-> 0,
             hook |-> "none", state |-> "idle"]
NoResp == [failures |-> <<>>, services |-> <<>>]
NoRunTaskOutput == [err |-> FALSE, tasks |-> <<>>, failures |-> <<"none">>]
NoTemplate == <<>>
NotParsed == [defn |-> Null, err |-> "not called"]
NoDeployOutput == [clock |-> NoTime, deployments |-> <<>>]
NoReply == [err |-> FALSE, failures |-> <<"none">>, services |-> <<>>]

-----------------------------------------------------------------------------
(* util/waiter.go *)

\* time.Time.Unix(): whole seconds, the sub-second part dropped
Unix(t) == t \div TicksPerSecond

\* the base poll interval install passes to WaiterDelay, and the SDK's own
\* delay between the attempts of an ECS waiter, in seconds
defaultDelay == 15

\* WaiterDelay without the extra attempt that covers the remainder
WaiterDelay_NoExtraAttempt(t, d) ==
    IF t = 0
    THEN [maxAttempts |-> 0, hasDelay |-> FALSE, defaultDelay |-> d, lastDelay |-> d]
    ELSE [maxAttempts |-> t \div d + 1, hasDelay |-> TRUE, defaultDelay |-> d,
          lastDelay |-> IF t % d = 0 THEN d ELSE t % d]

\* WaiterDelay taking timeout 0 as a budget of a single attempt
WaiterDelay_ZeroIsOneAttempt(t, d) ==
    IF t = 0
    THEN [maxAttempts |-> 1, hasDelay |-> FALSE, defaultDelay |-> d, lastDelay |-> d]
    ELSE [maxAttempts |-> IF t % d = 0 THEN t \div d + 1 ELSE t \div d + 2,
          hasDelay |-> TRUE, defaultDelay |-> d,
          lastDelay |-> IF t % d = 0 THEN d ELSE t % d]

\* WaiterDelay without the "+ 1" for the attempts being counted from 1
WaiterDelay_CountsFromZero(t, d) ==
    IF t = 0
    THEN [maxAttempts |-> 0, hasDelay |-> FALSE, defaultDelay |-> d, lastDelay |-> d]
    ELSE [maxAttempts |-> IF t % d = 0 THEN t \div d ELSE t \div d + 1,
          hasDelay |-> TRUE, defaultDelay |-> d,
          lastDelay |-> IF t % d = 0 THEN d ELSE t % d]

\* WaiterDelay whose last delay is the remainder even when it is 0
WaiterDelay_LastIsRemainder(t, d) ==
    IF t = 0
    THEN [maxAttempts |-> 0, hasDelay |-> FALSE, defaultDelay |-> d, lastDelay |-> d]
    ELSE [maxAttempts |-> IF t % d = 0 THEN t \div d + 1 ELSE t \div d + 2,
          hasDelay |-> TRUE, defaultDelay |-> d, lastDelay |-> t % d]

\* WaiterDelay(timeout, defaultDelay): the WaiterOptions it returns, as the
\* fields of the waiter they set.  hasDelay is whether WithWaiterDelay is
\* among them; without it the waiter keeps the SDK's constant delay.
WaiterDelay(t, d) ==
    IF t = 0
    THEN [maxAttempts |-> 0, hasDelay |-> FALSE, defaultDelay |-> d, lastDelay |-> d]
    ELSE LET attempts == t \div d + 1
             rem == t % d
         IN  IF rem = 0
             THEN [maxAttempts |-> attempts, hasDelay |-> TRUE,
                   defaultDelay |-> d, lastDelay |-> d]
             ELSE [maxAttempts |-> attempts + 1, hasDelay |-> TRUE,
                   defaultDelay |-> d, lastDelay |-> rem]

\* the logrus levels main can set, as logrus numbers them
Level(l) == CASE l = "fatal" -> 1 [] l = "info" -> 4 [] l = "debug" -> 5

\* The sleep hook the function site attaches to its waiter at log level l:
\* deployInstall and runTask test >= InfoLevel and then == DebugLevel,
\* rollbackInstall and deployUpgrade test == InfoLevel and then == DebugLevel.
Hook(site, l) ==
    IF site \in {"deployInstall", "runTask"}
    THEN IF Level(l) >= Level("info") THEN "progress"
         ELSE IF l = "debug" THEN "debug" ELSE "none"
    ELSE IF l = "info" THEN "progress"
         ELSE IF l = "debug" THEN "debug" ELSE "none"

\* the option applied to the waiter
WithHook(w, h) == [w EXCEPT !.hook = h]

\* a sleep that a hook makes fail
SleepWithContext_Cancels(hook, d) ==
    [err |-> hook # "none", seconds |-> d, printed |-> <<>>]

\* waiter.SleepWithContext under aws.BackgroundContext(): what it prints or
\* logs, the seconds it sleeps and whether it returns an error.  Every hook
\* returns what aws.SleepWithContext returns, and the background context is
\* never done.
SleepWithContext(hook, d) ==
    [err |-> FALSE, seconds |-> d,
     printed |-> CASE hook = "progress" -> <<".">>
                   [] hook = "debug" -> <<"Sleeping, previous response">>
                   [] OTHER -> <<>>]

\* a delayFunc that sleeps defaultDelay after every attempt
delayFunc_Constant(w, attempt) == w.defaultDelay

\* delayFunc of WaiterDelay: the seconds to sleep after attempt number attempt
delayFunc(w, attempt) ==
    IF attempt + 1 = w.maxAttempts THEN w.lastDelay ELSE w.defaultDelay

\* contains(message, marker) of the acceptor's expression; a message is the
\* sequence of its words
Contains(message, marker) == \E i \in 1..Len(message) : message[i] = marker

\* A field of a service event in a DescribeServices response.  An event has
\* the fields createdAt and message; any other name evaluates to null.
EventField(e, f) == IF f \in DOMAIN e THEN e[f] ELSE NoTime

\* an acceptor that fails the wait on any event with the marker, whenever the
\* event was created
GetFailOnAbortContext_NoCutoff(createdAt) ==
    [state |-> "failure", matcher |-> "pathAny", expected |-> FALSE,
     marker |-> "unable", field |-> "createdAt",
     cutoff |-> [token |-> "literal", value |-> -1],
     count |-> 0]

\* an acceptor that compares the events with the epoch instead of the origin
\* it is given
GetFailOnAbortContext_EpochOrigin(createdAt) ==
    [state |-> "failure", matcher |-> "pathAny", expected |-> FALSE,
     marker |-> "unable", field |-> "createdAt",
     cutoff |-> [token |-> "literal", value |-> 0],
     count |-> 0]

\* GetFailOnAbortContext(createdAt): the acceptor it appends.  The argument is
\*   length(services[?events[?contains(message, 'unable') && updatedAt > %d]]) == `0`
\* with %d the Unix seconds of createdAt, printed as a bare number (token
\* "number") and not as a backquoted JSON literal (token "literal").
GetFailOnAbortContext(createdAt) ==
    [state |-> "failure", matcher |-> "pathAny", expected |-> TRUE,
     marker |-> "unable", field |-> "updatedAt",
     cutoff |-> [token |-> "number", value |-> Unix(createdAt)],
     count |-> 0]

\* Whether the acceptor's argument is a JMESPath expression.  The operand of
\* a comparator is an expression, and a number is one only as a literal.
Compiles(a) == a.cutoff.token = "literal"

\* The value of the acceptor's argument on a response: the number of services
\* with an event that contains the marker and whose field exceeds the cutoff
\* (a comparison with null is not true; a timestamp keeps its sub-second
\* part, the cutoff is whole seconds), compared with count.
Search(a, resp) ==
    LET hit(e) == /\ Contains(e.message, a.marker)
                  /\ EventField(e, a.field) # NoTime
                  /\ EventField(e, a.field) > a.cutoff.value * TicksPerSecond
        sel == SelectSeq(resp.services, LAMBDA s : \E e \in s.events : hit(e))
    IN  Len(sel) = a.count

\* request.WaiterAcceptor.match for the appended acceptor: a path matcher
\* matches when some value of the argument equals Expected; an argument that
\* does not compile has no values.
FailOnAbortMatches(a, resp) == Compiles(a) /\ Search(a, resp) = a.expected

-----------------------------------------------------------------------------
(* The waiters of the ECS gateway, as install and upgrade configure them *)

\* svc.WaitUntilServicesStableWithContext(..., opts...): the waiter after the
\* options were applied.  o is what WaiterDelay returned (the waiter's own
\* attempt budget and delay when the command passes none).
StableWaiter(o, createdAt, phase) ==
    [name |-> "ServicesStable", attempt |-> 1, maxAttempts |-> o.maxAttempts,
     defaultDelay |-> o.defaultDelay, lastDelay |-> o.lastDelay,
     failOnAbort |-> TRUE, createdAt |-> createdAt, phase |-> phase,
     matched |-> 0, hook |-> "none", state |-> "waiting"]

\* svc.WaitUntilServicesInactiveWithContext(..., opts...)
InactiveWaiter(o, phase) ==
    [name |-> "ServicesInactive", attempt |-> 1, maxAttempts |-> o.maxAttempts,
     defaultDelay |-> o.defaultDelay, lastDelay |-> o.lastDelay,
     failOnAbort |-> FALSE, createdAt |-> NoTime, phase |-> phase,
     matched |-> 0, hook |-> "none", state |-> "waiting"]

\* svc.WaitUntilTasksStoppedWithContext(..., opts...): runTask passes no
\* option that sets the attempts or the delay
TasksStoppedWaiter(o) ==
    [name |-> "TasksStopped", attempt |-> 1, maxAttempts |-> o.maxAttempts,
     defaultDelay |-> o.defaultDelay, lastDelay |-> o.lastDelay,
     failOnAbort |-> FALSE, createdAt |-> NoTime, phase |-> "forward",
     matched |-> 0, hook |-> "none", state |-> "waiting"]

\* the delay between the attempts of the task waiter, in seconds
tasksDelay == 6

\* the task waiter's own attempt budget and delay
DefaultTaskOptions ==
    [maxAttempts |-> DefaultMaxAttempts, hasDelay |-> FALSE,
     defaultDelay |-> tasksDelay, lastDelay |-> tasksDelay]

\* a waiter that no WaiterDelay option was applied to
DefaultOptions ==
    [maxAttempts |-> DefaultMaxAttempts, hasDelay |-> FALSE,
     defaultDelay |-> defaultDelay, lastDelay |-> defaultDelay]

\* acceptors of which the stable one gives way to an event with the marker
AcceptorMatches_MarkerBlocksStable(w, k, resp) ==
    LET missing == \E i \in 1..Len(resp.failures) : resp.failures[i] = "MISSING"
        status(st) == \E i \in 1..Len(resp.services) : resp.services[i].status = st
        marker == \E i \in 1..Len(resp.services) : \E e \in resp.services[i].events :
                      Contains(e.message, "unable") /\ e.createdAt > w.createdAt
        stable == /\ Len(resp.services) > 0
                  /\ \A i \in 1..Len(resp.services) : resp.services[i].stable
    IN  IF w.name = "ServicesStable"
        THEN CASE k = 1 -> missing
               [] k = 2 -> status("DRAINING")
               [] k = 3 -> status("INACTIVE")
               [] k = 4 -> marker
               [] k = 5 -> stable
               [] OTHER -> FALSE
        ELSE IF w.name = "ServicesInactive"
        THEN CASE k = 1 -> missing
               [] k = 2 -> status("INACTIVE")
               [] OTHER -> FALSE
        ELSE CASE k = 1 -> /\ Len(resp.tasks) > 0
                           /\ \A i \in 1..Len(resp.tasks) : resp.tasks[i].lastStatus = "STOPPED"
               [] OTHER -> FALSE

\* The acceptors of a waiter, in the order they are tried: the waiter's own,
\* then the ones the options appended.  Each is the state it ends the wait in.
\*   ServicesStable:   1 failures[].reason = MISSING -> failure
\*                     2 services[].status = DRAINING -> failure
\*                     3 services[].status = INACTIVE -> failure
\*                     4 every service stable -> success
\*                     5 the acceptor of GetFailOnAbortContext -> failure
\*   ServicesInactive: 1 failures[].reason = MISSING -> failure
\*                     2 services[].status = INACTIVE -> success
\*   TasksStopped:     1 every task has lastStatus STOPPED -> success
AcceptorMatches(w, k, resp) ==
    LET missing == \E i \in 1..Len(resp.failures) : resp.failures[i] = "MISSING"
        status(st) == \E i \in 1..Len(resp.services) : resp.services[i].status = st
        stable == /\ Len(resp.services) > 0
                  /\ \A i \in 1..Len(resp.services) : resp.services[i].stable
    IN  IF w.name = "ServicesStable"
        THEN CASE k = 1 -> missing
               [] k = 2 -> status("DRAINING")
               [] k = 3 -> status("INACTIVE")
               [] k = 4 -> stable
               [] k = 5 -> /\ w.failOnAbort
                           /\ FailOnAbortMatches(GetFailOnAbortContext(w.createdAt), resp)
               [] OTHER -> FALSE
        ELSE IF w.name = "ServicesInactive"
        THEN CASE k = 1 -> missing
               [] k = 2 -> status("INACTIVE")
               [] OTHER -> FALSE
        ELSE CASE k = 1 -> /\ Len(resp.tasks) > 0
                           /\ \A i \in 1..Len(resp.tasks) : resp.tasks[i].lastStatus = "STOPPED"
               [] OTHER -> FALSE

AcceptorState(w, k) ==
    IF w.name = "ServicesStable"
    THEN (IF k = 4 THEN "success" ELSE "failure")
    ELSE IF w.name = "ServicesInactive"
    THEN (IF k = 2 THEN "success" ELSE "failure")
    ELSE "success"

\* the first acceptor that matches the response, 0 when none does
MatchedAcceptor(w, resp) ==
    IF \E k \in 1..5 : AcceptorMatches(w, k, resp)
    THEN CHOOSE k \in 1..5 : /\ AcceptorMatches(w, k, resp)
                             /\ \A j \in 1..(k - 1) : ~AcceptorMatches(w, j, resp)
    ELSE 0

\* an attempt of a waiter that does not compare the attempt with MaxAttempts
WaitAttempt_NoBudget(w, resp, t) ==
    LET k == MatchedAcceptor(w, resp)
    IN  IF k # 0
        THEN [w |-> [w EXCEPT !.matched = k, !.state = AcceptorState(w, k)], now |-> t,
              printed |-> <<>>]
        ELSE [w |-> [w EXCEPT !.attempt = w.attempt + 1],
              now |-> t + delayFunc(w, w.attempt) * TicksPerSecond,
              printed |-> SleepWithContext(w.hook, delayFunc(w, w.attempt)).printed]

\* One attempt of Waiter.WaitWithContext on the response resp received at
\* time t: the waiter afterwards and the clock after the sleep (if any).
WaitAttempt(w, resp, t) ==
    LET k == MatchedAcceptor(w, resp)
        s == SleepWithContext(w.hook, delayFunc(w, w.attempt))
    IN  IF k # 0
        THEN [w |-> [w EXCEPT !.matched = k, !.state = AcceptorState(w, k)], now |-> t,
              printed |-> <<>>]
        ELSE IF w.attempt = w.maxAttempts
        THEN [w |-> [w EXCEPT !.state = "timeout"], now |-> t, printed |-> <<>>]
        ELSE IF s.err
        THEN [w |-> [w EXCEPT !.state = "canceled"], now |-> t, printed |-> s.printed]
        ELSE [w |-> [w EXCEPT !.attempt = w.attempt + 1],
              now |-> t + s.seconds * TicksPerSecond, printed |-> s.printed]

\* the error WaitWithContext returns
WaiterError(w, id) ==
    CASE w.state = "success" -> Nil
      [] w.state = "failure" -> Error("failed waiting for successful resource state", id)
      [] w.state = "timeout" -> Error("exceeded wait attempts", id)
      [] w.state = "canceled" -> Error("waiter context canceled", id)
      [] OTHER -> NotReturned

-----------------------------------------------------------------------------
(* The gateway *)

Timeouts == {0} \cup {(k * defaultDelay) \div 2 : k \in 1..MaxTimeoutHalves}

\* the entry of a DescribeServices response for the service
Described(sv, evs, stable) ==
    [serviceName |-> ServiceName, serviceArn |-> ServiceArn, status |-> sv.status,
     taskDefinition |-> sv.taskDefinition, stable |-> stable, events |-> evs]

\* The replies DescribeServices can give run for the requested name: a call
\* error, a failure list, or a service list.  A service that does not exist
\* is reported as a MISSING failure or by an empty service list.
DescribeReplies ==
    LET reply(e, f, sv) == [err |-> e, failures |-> f, services |-> sv]
    IN  {reply(TRUE, <<>>, <<>>), reply(FALSE, <<"ACCESS">>, <<>>)} \cup
        (IF service.status = "NONE"
         THEN {reply(FALSE, <<"MISSING">>, <<>>), reply(FALSE, <<"ACCESS", "MISSING">>, <<>>),
               reply(FALSE, <<>>, <<>>)}
         ELSE {reply(FALSE, <<>>, <<Described(service, events, FALSE)>>)})

\* the Deployments of a CreateService or UpdateService response
\* of a call the gateway receives at time t: none, the new PRIMARY deployment,
\* or the previous deployment before it; the gateway stamps updatedAt after
\* createdAt
DeploymentReplies(t) ==
    {<<>>,
     <<[status |-> "PRIMARY", createdAt |-> t, updatedAt |-> t + 1]>>,
     <<[status |-> "ACTIVE", createdAt |-> 0, updatedAt |-> t],
       [status |-> "PRIMARY", createdAt |-> t, updatedAt |-> t + 1]>>}

\* an origin taken from the first deployment, whatever its status
PrimaryTime_FirstDeployment(deployments, f, dflt) ==
    IF deployments = <<>> THEN dflt ELSE deployments[1][f]

\* the timestamp of the first PRIMARY deployment, dflt when there is none
PrimaryTime(deployments, f, dflt) ==
    LET idx == {i \in 1..Len(deployments) : deployments[i].status = "PRIMARY"}
    IN  IF idx = {} THEN dflt
        ELSE deployments[CHOOSE i \in idx : \A j \in idx : i <= j][f]

\* a gateway call in the log: the operation, its argument, whether it succeeded
Call(op, arg, ok) == [op |-> op, arg |-> arg, ok |-> ok]

-----------------------------------------------------------------------------
(* The state after the command line was parsed *)

\* the command line and the gateway before the command runs, at one of the
\* log levels and with --task-definition-arn, when given, one of arns
Invocation(levels, arns) ==
    /\ cmd \in {"install", "upgrade", "register", "task"}
    /\ args \in (CASE cmd = "install" -> {<<Cluster>>, <<Cluster, TaskDefnFile>>}
                   [] cmd = "upgrade" -> {<<Cluster, ServiceName>>,
                                          <<Cluster, ServiceName, TaskDefnFile>>}
                   [] cmd = "register" -> {<<TaskDefnFile>>}
                   [] cmd = "task" -> {<<TaskFile>>})
    /\ rollback \in (IF cmd \in {"register", "task"} THEN {FALSE} ELSE BOOLEAN)
    /\ deregister \in (IF cmd = "upgrade" THEN BOOLEAN ELSE {FALSE})
    /\ taskDefinitionArn \in (IF cmd = "register" THEN {""} ELSE {""} \cup arns)
    /\ timeout \in (IF cmd = "install" THEN Timeouts ELSE {0})
    /\ dryRun \in (IF cmd = "register" THEN BOOLEAN ELSE {FALSE})
    /\ logLevel \in levels
    /\ strict = FALSE
    /\ template = NoTemplate
    /\ pc = "RunE"
    /\ oldTaskDefinition = Null
    /\ taskDefnArn = ""
    /\ err = Nil
    /\ rollbackErr = Nil
    /\ result = NotReturned
    /\ waiter = NoWaiter
    /\ lastResp = NoResp
    /\ sleeps = <<>>
    /\ describeServicesOutput = NoReply
    /\ service \in (IF cmd = "task"
                    THEN {[status |-> "NONE", taskDefinition |-> Null]}
                    ELSE {[status |-> "NONE", taskDefinition |-> Null],
                          [status |-> "ACTIVE", taskDefinition |-> OldArn],
                          [status |-> "INACTIVE", taskDefinition |-> OldArn]})
    /\ events \in (IF service.status = "NONE" THEN {{}}
                   ELSE SUBSET {[createdAt |-> 0, message |-> MsgUnable]})
    /\ registered \in (IF cmd = "task"
                       THEN {{OldArn}, {OldArn, GivenArn, JsonArn}}
                       ELSE {{OldArn}, {OldArn, GivenArn}})
    /\ now = TicksPerSecond
    /\ calls = <<>>
    /\ tasks = <<>>
    /\ runTaskOutput = NoRunTaskOutput
    /\ describeTasksOutput = NoRunTaskOutput
    /\ output = <<>>
    /\ parsed = NotParsed
    /\ deployOutput = NoDeployOutput

\* neither --debug nor --quiet
Init == Invocation({"info"}, {GivenArn})

Return(e) ==
    /\ result' = e
    /\ pc' = "done"

\* how many positional arguments the command has when the file is given
FileArgs ==
    CASE cmd = "install" -> 2 [] cmd = "upgrade" -> 3
      [] cmd = "register" -> 1 [] cmd = "task" -> 1

-----------------------------------------------------------------------------
(* RunE of newInstallCmd, newUpgradeCmd, newRegisterCmd and newTaskCmd, up  *)
(* to the call of run.  register has no --task-definition-arn and goes      *)
(* straight to the registration; task takes the file and the flag together. *)

\* RunE refusing only the command line that names no task definition at all
RunE_AcceptsBoth ==
    /\ pc = "RunE"
    /\ IF cmd \in {"install", "upgrade"} /\ Len(args) < FileArgs /\ taskDefinitionArn = ""
       THEN Return(Error("exactly one of a task definition JSON filename or a task definition ARN must be provided", 0))
       ELSE /\ pc' = CASE cmd = "register" -> "taskdef" [] cmd = "task" -> "task"
                        [] OTHER -> "describe"
            /\ UNCHANGED result
    /\ UNCHANGED <<flags, aside, describeServicesOutput, sleeps, oldTaskDefinition, taskDefnArn, err, rollbackErr, waiter,
                   lastResp, service, events, registered, now, calls>>

RunE ==
    /\ pc = "RunE"
    /\ IF cmd \in {"install", "upgrade"} /\ (Len(args) >= FileArgs) = (taskDefinitionArn # "")
       THEN Return(Error("exactly one of a task definition JSON filename or a task definition ARN must be provided", 0))
       ELSE /\ pc' = CASE cmd = "register" -> "taskdef" [] cmd = "task" -> "task"
                        [] OTHER -> "describe"
            /\ UNCHANGED result
    /\ UNCHANGED <<flags, aside, describeServicesOutput, sleeps, oldTaskDefinition, taskDefnArn, err, rollbackErr, waiter,
                   lastResp, service, events, registered, now, calls>>

\* a match that passes over the entries of deleted (INACTIVE) services
MatchingTaskDefinition_ActiveOnly(svcs) ==
    LET idx == {i \in 1..Len(svcs) : /\ svcs[i].status # "INACTIVE"
                                     /\ \/ svcs[i].serviceName = ServiceName
                                        \/ svcs[i].serviceArn = ServiceName}
    IN  IF idx = {} THEN Null
        ELSE svcs[CHOOSE i \in idx : \A j \in idx : j <= i].taskDefinition

\* the task definition of the entry that matches by name or by ARN
\* (the last one, as the loop overwrites), Null when none matches
MatchingTaskDefinition(svcs) ==
    LET idx == {i \in 1..Len(svcs) : \/ svcs[i].serviceName = ServiceName
                                     \/ svcs[i].serviceArn = ServiceName}
    IN  IF idx = {} THEN Null
        ELSE svcs[CHOOSE i \in idx : \A j \in idx : j <= i].taskDefinition

\* run looking only at the first failure of the response for MISSING
DescribeServices_FirstFailureOnly ==
    /\ pc = "describe"
    /\ \E r \in DescribeReplies :
         LET id == Len(calls) + 1
             old == MatchingTaskDefinition(r.services)
         IN  /\ calls' = Append(calls, Call("DescribeServices", ServiceName, ~r.err))
             /\ describeServicesOutput' = r
             /\ IF r.err
                THEN /\ Return(Wrap(Error("DescribeServices failed", id), "cannot describe services"))
                     /\ UNCHANGED oldTaskDefinition
                ELSE IF cmd = "install"
                THEN IF Len(r.failures) # 0
                     THEN /\ Return(Error("Error retrieving information about existing service", id))
                          /\ UNCHANGED oldTaskDefinition
                     ELSE IF old # Null
                     THEN /\ Return(Error("Service already exists in cluster", id))
                          /\ oldTaskDefinition' = old
                     ELSE /\ pc' = "taskdef"
                          /\ oldTaskDefinition' = old
                          /\ UNCHANGED result
                ELSE IF Len(r.failures) # 0
                     THEN /\ IF r.failures[1] = "MISSING"
                             THEN Return(Error("Service does not exist in cluster", id))
                             ELSE Return(Error("Error retrieving information about existing service", id))
                          /\ UNCHANGED oldTaskDefinition
                     ELSE IF old = Null
                     THEN /\ Return(Error("no error/failure during DescribeServices but service not found in response", id))
                          /\ oldTaskDefinition' = old
                     ELSE /\ pc' = "taskdef"
                          /\ oldTaskDefinition' = old
                          /\ UNCHANGED result
    /\ UNCHANGED <<flags, aside, sleeps, taskDefnArn, err, rollbackErr, waiter, lastResp,
                   service, events, registered, now>>


\* run, from its start to the decision on the DescribeServices response
DescribeServices ==
    /\ pc = "describe"
    /\ \E r \in DescribeReplies :
         LET id == Len(calls) + 1
             old == MatchingTaskDefinition(r.services)
         IN  /\ calls' = Append(calls, Call("DescribeServices", ServiceName, ~r.err))
             /\ describeServicesOutput' = r
             /\ IF r.err
                THEN /\ Return(Wrap(Error("DescribeServices failed", id), "cannot describe services"))
                     /\ UNCHANGED oldTaskDefinition
                ELSE IF cmd = "install"
                THEN IF Len(r.failures) # 0
                     THEN /\ Return(Error("Error retrieving information about existing service", id))
                          /\ UNCHANGED oldTaskDefinition
                     ELSE IF old # Null
                     THEN /\ Return(Error("Service already exists in cluster", id))
                          /\ oldTaskDefinition' = old
                     ELSE /\ pc' = "taskdef"
                          /\ oldTaskDefinition' = old
                          /\ UNCHANGED result
                ELSE IF Len(r.failures) # 0
                     THEN /\ IF \E i \in 1..Len(r.failures) : r.failures[i] = "MISSING"
                             THEN Return(Error("Service does not exist in cluster", id))
                             ELSE Return(Error("Error retrieving information about existing service", id))
                          /\ UNCHANGED oldTaskDefinition
                     ELSE IF old = Null
                     THEN /\ Return(Error("no error/failure during DescribeServices but service not found in response", id))
                          /\ oldTaskDefinition' = old
                     ELSE /\ pc' = "taskdef"
                          /\ oldTaskDefinition' = old
                          /\ UNCHANGED result
    /\ UNCHANGED <<flags, aside, sleeps, taskDefnArn, err, rollbackErr, waiter, lastResp,
                   service, events, registered, now>>

\* registerTaskDefinition repeating a rejected registration once before it
\* gives up
RegisterTaskDefinition_Retries ==
    /\ pc = "taskdef"
    /\ Len(args) >= FileArgs
    /\ \/ \* mergeValues or ParseTaskDefinition fails
          /\ Return(Wrap(Error("ParseTaskDefinition failed", 0), "cannot parse task definition"))
          /\ UNCHANGED <<taskDefnArn, registered, calls, output>>
       \/ \* --dry-run prints the parsed definition
          /\ dryRun
          /\ output' = Append(output, Rendered)
          /\ Return(Nil)
          /\ UNCHANGED <<taskDefnArn, registered, calls>>
       \/ \* the gateway rejects the registration
          /\ ~dryRun
          /\ calls' = calls \o <<Call("RegisterTaskDefinition", TaskDefnFile, FALSE),
                               Call("RegisterTaskDefinition", TaskDefnFile, FALSE)>>
          /\ Return(Wrap(Error("RegisterTaskDefinition failed", Len(calls) + 2),
                         "cannot register task definition"))
          /\ UNCHANGED <<taskDefnArn, registered, output>>
       \/ /\ ~dryRun
          /\ calls' = Append(calls, Call("RegisterTaskDefinition", TaskDefnFile, TRUE))
          /\ registered' = registered \cup {NewArn}
          /\ taskDefnArn' = NewArn
          /\ IF cmd = "register"
             THEN Return(Nil) /\ output' = Append(output, NewArn)
             ELSE pc' = "deploy" /\ UNCHANGED <<result, output>>
    /\ UNCHANGED <<flags, tasks, runTaskOutput, describeTasksOutput, parsed, deployOutput,
                   describeServicesOutput, sleeps, oldTaskDefinition, err, rollbackErr, waiter,
                   lastResp, service, events, now>>

\* a register that goes to the gateway with --dry-run too
RegisterTaskDefinition_DryRunRegisters ==
    /\ pc = "taskdef"
    /\ Len(args) >= FileArgs
    /\ \/ \* mergeValues or ParseTaskDefinition fails
          /\ Return(Wrap(Error("ParseTaskDefinition failed", 0), "cannot parse task definition"))
          /\ UNCHANGED <<taskDefnArn, registered, calls, output>>
       \/ \* the gateway rejects the registration
          /\ calls' = Append(calls, Call("RegisterTaskDefinition", TaskDefnFile, FALSE))
          /\ Return(Wrap(Error("RegisterTaskDefinition failed", Len(calls) + 1),
                         "cannot register task definition"))
          /\ UNCHANGED <<taskDefnArn, registered, output>>
       \/ /\ calls' = Append(calls, Call("RegisterTaskDefinition", TaskDefnFile, TRUE))
          /\ registered' = registered \cup {NewArn}
          /\ taskDefnArn' = NewArn
          /\ IF cmd = "register"
             THEN Return(Nil) /\ output' = Append(output, NewArn)
             ELSE pc' = "deploy" /\ UNCHANGED <<result, output>>
    /\ UNCHANGED <<flags, tasks, runTaskOutput, describeTasksOutput, parsed, deployOutput,
                   describeServicesOutput, sleeps, oldTaskDefinition, err, rollbackErr, waiter,
                   lastResp, service, events, now>>

\* registerCmd.registerTaskDefinition, called by run when the file is given;
\* the run of register returns after it
RegisterTaskDefinition ==
    /\ pc = "taskdef"
    /\ Len(args) >= FileArgs
    /\ \/ \* mergeValues or ParseTaskDefinition fails
          /\ Return(Wrap(Error("ParseTaskDefinition failed", 0), "cannot parse task definition"))
          /\ UNCHANGED <<taskDefnArn, registered, calls, output>>
       \/ \* --dry-run prints the parsed definition and returns "", nil
          /\ dryRun
          /\ output' = Append(output, Rendered)
          /\ Return(Nil)
          /\ UNCHANGED <<taskDefnArn, registered, calls>>
       \/ \* the gateway rejects the registration
          /\ ~dryRun
          /\ calls' = Append(calls, Call("RegisterTaskDefinition", TaskDefnFile, FALSE))
          /\ Return(Wrap(Error("RegisterTaskDefinition failed", Len(calls) + 1),
                         "cannot register task definition"))
          /\ UNCHANGED <<taskDefnArn, registered, output>>
       \/ /\ ~dryRun
          /\ calls' = Append(calls, Call("RegisterTaskDefinition", TaskDefnFile, TRUE))
          /\ registered' = registered \cup {NewArn}
          /\ taskDefnArn' = NewArn
          /\ IF cmd = "register"
             THEN Return(Nil) /\ output' = Append(output, NewArn)
             ELSE pc' = "deploy" /\ UNCHANGED <<result, output>>
    /\ UNCHANGED <<flags, tasks, runTaskOutput, describeTasksOutput, parsed, deployOutput,
                   describeServicesOutput, sleeps, oldTaskDefinition, err, rollbackErr, waiter,
                   lastResp, service, events, now>>

\* run deploying the definition given by --task-definition-arn whatever the
\* lookup returned
DescribeTaskDefinition_IgnoresError ==
    /\ pc = "taskdef"
    /\ Len(args) < FileArgs
    /\ calls' = Append(calls, Call("DescribeTaskDefinition", taskDefinitionArn,
                                   taskDefinitionArn \in registered))
    /\ taskDefnArn' = taskDefinitionArn
    /\ pc' = "deploy"
    /\ UNCHANGED result
    /\ UNCHANGED <<flags, aside, describeServicesOutput, sleeps, oldTaskDefinition, err, rollbackErr, waiter, lastResp,
                   service, events, registered, now>>

\* run's lookup of the definition given by --task-definition-arn
DescribeTaskDefinition ==
    /\ pc = "taskdef"
    /\ Len(args) < FileArgs
    /\ calls' = Append(calls, Call("DescribeTaskDefinition", taskDefinitionArn,
                                   taskDefinitionArn \in registered))
    /\ IF taskDefinitionArn \in registered
       THEN /\ taskDefnArn' = taskDefinitionArn
            /\ pc' = "deploy"
            /\ UNCHANGED result
       ELSE /\ Return(Wrap(Error("DescribeTaskDefinition failed", Len(calls) + 1),
                           "cannot retrieve task definition"))
            /\ UNCHANGED taskDefnArn
    /\ UNCHANGED <<flags, aside, describeServicesOutput, sleeps, oldTaskDefinition, err, rollbackErr, waiter, lastResp,
                   service, events, registered, now>>

-----------------------------------------------------------------------------
(* Deploying: CreateService or UpdateService, then the wait for stability *)

\* run's variable that receives what the deploy of this phase returns
Returned(phase, e) ==
    IF phase = "forward"
    THEN /\ err' = e
         /\ pc' = "deployed"
         /\ UNCHANGED rollbackErr
    ELSE /\ rollbackErr' = e
         /\ pc' = "rolledback"
         /\ UNCHANGED err

\* installCmd.deployInstall up to the start of the wait
CreateService ==
    /\ pc = "deploy"
    /\ cmd = "install"
    /\ \/ /\ calls' = Append(calls, Call("CreateService", taskDefnArn, FALSE))
          /\ Returned("forward", Error("CreateService failed", Len(calls) + 1))
          /\ UNCHANGED <<waiter, service, events, lastResp, sleeps, now, deployOutput>>
       \/ /\ service.status \in {"NONE", "INACTIVE"}
          /\ calls' = Append(calls, Call("CreateService", taskDefnArn, TRUE))
          /\ lastResp' = NoResp
          /\ sleeps' = <<>>
          /\ service' = [status |-> "ACTIVE", taskDefinition |-> taskDefnArn]
          /\ events' = {}
          /\ now' = now + 1
          /\ \E d \in DeploymentReplies(now') :
               /\ deployOutput' = [clock |-> now, deployments |-> d]
               /\ waiter' = WithHook(StableWaiter(WaiterDelay(timeout, defaultDelay),
                                                  PrimaryTime(d, "createdAt", now), "forward"),
                                     Hook("deployInstall", logLevel))
          /\ pc' = "wait"
          /\ UNCHANGED <<err, rollbackErr>>
    /\ UNCHANGED <<flags, tasks, runTaskOutput, describeTasksOutput, output, parsed,
                   describeServicesOutput, oldTaskDefinition, taskDefnArn, result, registered>>

\* deployUpgrade up to the start of the wait: the forward update to the new
\* definition, and the rollback update to the old one
UpdateService ==
    /\ cmd = "upgrade"
    /\ pc \in {"deploy", "rollback"}
    /\ LET phase == IF pc = "deploy" THEN "forward" ELSE "rollback"
           target == IF pc = "deploy" THEN taskDefnArn ELSE oldTaskDefinition
       IN  \/ /\ calls' = Append(calls, Call("UpdateService", target, FALSE))
              /\ Returned(phase, Error("UpdateService failed", Len(calls) + 1))
              /\ UNCHANGED <<waiter, service, lastResp, sleeps, now, deployOutput>>
           \/ /\ service.status = "ACTIVE"
              /\ calls' = Append(calls, Call("UpdateService", target, TRUE))
              /\ lastResp' = NoResp
              /\ sleeps' = <<>>
              /\ service' = [service EXCEPT !.taskDefinition = target]
              /\ now' = now + 1
              /\ \E d \in DeploymentReplies(now') :
                   /\ deployOutput' = [clock |-> now, deployments |-> d]
                   /\ waiter' = WithHook(StableWaiter(DefaultOptions,
                                                      PrimaryTime(d, "updatedAt", now), phase),
                                         Hook("deployUpgrade", logLevel))
              /\ pc' = "wait"
              /\ UNCHANGED <<err, rollbackErr>>
    /\ UNCHANGED <<flags, tasks, runTaskOutput, describeTasksOutput, output, parsed,
                   describeServicesOutput, oldTaskDefinition, taskDefnArn, result,
                   events, registered>>

\* installCmd.rollbackInstall up to the start of the wait
DeleteService ==
    /\ cmd = "install"
    /\ pc = "rollback"
    /\ \/ /\ calls' = Append(calls, Call("DeleteService", ServiceName, FALSE))
          /\ Returned("rollback", Error("DeleteService failed", Len(calls) + 1))
          /\ UNCHANGED <<waiter, service, lastResp, sleeps>>
       \/ /\ service.status = "ACTIVE"
          /\ calls' = Append(calls, Call("DeleteService", ServiceName, TRUE))
          /\ lastResp' = NoResp
          /\ sleeps' = <<>>
          /\ service' = [service EXCEPT !.status = "DRAINING"]
          /\ waiter' = WithHook(InactiveWaiter(WaiterDelay(timeout, defaultDelay), "rollback"),
                                Hook("rollbackInstall", logLevel))
          /\ pc' = "wait"
          /\ UNCHANGED <<err, rollbackErr>>
    /\ UNCHANGED <<flags, aside, describeServicesOutput, oldTaskDefinition, taskDefnArn, result,
                   events, registered, now>>

\* One attempt of the wait in progress: the DescribeServices of the attempt,
\* the acceptors, and the sleep before the next attempt.  Since the previous
\* attempt the gateway may have appended an event and changed the service.
PollRound ==
    /\ pc = "wait"
    /\ waiter.state = "waiting"
    /\ waiter.maxAttempts = 0 => waiter.attempt <= MaxPolls
    /\ calls' = Append(calls, Call("DescribeServices", ServiceArn, TRUE))
    /\ \E stable \in BOOLEAN, msg \in {<<>>, MsgUnable, MsgSteady},
          lat \in 0..(TicksPerSecond - 1), st \in {service.status, "INACTIVE"} :
         /\ msg = <<>> => lat = 0
         /\ msg # <<>> => Cardinality(events) < MaxEvents /\ waiter.name = "ServicesStable"
         /\ st # service.status => service.status = "DRAINING"
         /\ waiter.name = "ServicesInactive" => ~stable
         /\ LET t == now + lat
                evs == IF msg = <<>> THEN events
                       ELSE events \cup {[createdAt |-> t, message |-> msg]}
                sv == [service EXCEPT !.status = st]
                resp == [failures |-> <<>>, services |-> <<Described(sv, evs, stable)>>]
                r == WaitAttempt(waiter, resp, t)
            IN  /\ events' = evs
                /\ service' = sv
                /\ lastResp' = resp
                /\ waiter' = r.w
                /\ now' = r.now
                /\ sleeps' = IF r.w.attempt = waiter.attempt THEN sleeps
                             ELSE Append(sleeps, delayFunc(waiter, waiter.attempt))
                /\ output' = output \o r.printed
                /\ IF r.w.state = "waiting"
                   THEN UNCHANGED <<pc, err, rollbackErr>>
                   ELSE Returned(waiter.phase, WaiterError(r.w, Len(calls) + 1))
    /\ UNCHANGED <<flags, tasks, runTaskOutput, describeTasksOutput, parsed, deployOutput,
                   describeServicesOutput, oldTaskDefinition, taskDefnArn, result, registered>>

-----------------------------------------------------------------------------
(* run after the deploy has returned *)

\* run returning the deploy failure of install without rolling back
Deployed_SkipsRollback ==
    /\ pc = "deployed"
    /\ IF cmd = "install"
       THEN IF err # Nil /\ rollback
            THEN Return(err)
            ELSE Return(Nil)
       ELSE IF err # Nil
            THEN IF rollback
                 THEN pc' = "rollback" /\ UNCHANGED result
                 ELSE Return(err)
            ELSE IF deregister /\ oldTaskDefinition # Null
                 THEN pc' = "deregisterOld" /\ UNCHANGED result
                 ELSE Return(Nil)
    /\ UNCHANGED <<flags, aside, describeServicesOutput, sleeps, oldTaskDefinition, taskDefnArn, err, rollbackErr, waiter,
                   lastResp, service, events, registered, now, calls>>


\* run rolling an install back whenever --rollback is set
Deployed_RollsBackOnSuccess ==
    /\ pc = "deployed"
    /\ IF cmd = "install"
       THEN IF rollback
            THEN pc' = "rollback" /\ UNCHANGED result
            ELSE Return(Nil)
       ELSE IF err # Nil
            THEN IF rollback
                 THEN pc' = "rollback" /\ UNCHANGED result
                 ELSE Return(err)
            ELSE IF deregister /\ oldTaskDefinition # Null
                 THEN pc' = "deregisterOld" /\ UNCHANGED result
                 ELSE Return(Nil)
    /\ UNCHANGED <<flags, aside, describeServicesOutput, sleeps, oldTaskDefinition, taskDefnArn, err, rollbackErr, waiter,
                   lastResp, service, events, registered, now, calls>>


\* run compensating only for a deploy whose wait had started
Deployed_RollbackAfterWaitOnly ==
    /\ pc = "deployed"
    /\ IF cmd = "install"
       THEN IF err # Nil /\ rollback
            THEN IF waiter # NoWaiter
                 THEN pc' = "rollback" /\ UNCHANGED result
                 ELSE Return(err)
            ELSE Return(Nil)
       ELSE IF err # Nil
            THEN IF rollback /\ waiter # NoWaiter
                 THEN pc' = "rollback" /\ UNCHANGED result
                 ELSE Return(err)
            ELSE IF deregister /\ oldTaskDefinition # Null
                 THEN pc' = "deregisterOld" /\ UNCHANGED result
                 ELSE Return(Nil)
    /\ UNCHANGED <<flags, aside, describeServicesOutput, sleeps, oldTaskDefinition, taskDefnArn, err, rollbackErr, waiter,
                   lastResp, service, events, registered, now, calls>>

\* run deregistering the new definition after a failed upgrade when only
\* --deregister was given
Deployed_DeregistersOnFailure ==
    /\ pc = "deployed"
    /\ IF cmd = "install"
       THEN IF err # Nil /\ rollback
            THEN pc' = "rollback" /\ UNCHANGED result
            ELSE Return(Nil)
       ELSE IF err # Nil
            THEN IF rollback
                 THEN pc' = "rollback" /\ UNCHANGED result
                 ELSE IF deregister
                 THEN pc' = "cleanup" /\ UNCHANGED result
                 ELSE Return(err)
            ELSE IF deregister /\ oldTaskDefinition # Null
                 THEN pc' = "deregisterOld" /\ UNCHANGED result
                 ELSE Return(Nil)
    /\ UNCHANGED <<flags, aside, describeServicesOutput, sleeps, oldTaskDefinition, taskDefnArn, err, rollbackErr, waiter,
                   lastResp, service, events, registered, now, calls>>

\* run's branch on err after deployInstall or deployUpgrade
Deployed ==
    /\ pc = "deployed"
    /\ IF cmd = "install"
       THEN IF err # Nil /\ rollback
            THEN pc' = "rollback" /\ UNCHANGED result
            ELSE Return(Nil)
       ELSE IF err # Nil
            THEN IF rollback
                 THEN pc' = "rollback" /\ UNCHANGED result
                 ELSE Return(err)
            ELSE IF deregister /\ oldTaskDefinition # Null
                 THEN pc' = "deregisterOld" /\ UNCHANGED result
                 ELSE Return(Nil)
    /\ UNCHANGED <<flags, aside, describeServicesOutput, sleeps, oldTaskDefinition, taskDefnArn, err, rollbackErr, waiter,
                   lastResp, service, events, registered, now, calls>>

\* run trying the rollback again when it failed
RolledBack_Retries ==
    /\ pc = "rolledback"
    /\ IF rollbackErr # Nil
       THEN pc' = "rollback" /\ UNCHANGED result
       ELSE pc' = "cleanup" /\ UNCHANGED result
    /\ UNCHANGED <<flags, aside, describeServicesOutput, sleeps, oldTaskDefinition, taskDefnArn, err, rollbackErr, waiter,
                   lastResp, service, events, registered, now, calls>>

\* run returning the deploy failure when the rollback failed
RolledBack_ReturnsOriginal ==
    /\ pc = "rolledback"
    /\ IF rollbackErr # Nil
       THEN Return(err)
       ELSE pc' = "cleanup" /\ UNCHANGED result
    /\ UNCHANGED <<flags, aside, describeServicesOutput, sleeps, oldTaskDefinition, taskDefnArn, err, rollbackErr, waiter,
                   lastResp, service, events, registered, now, calls>>


\* run going on to the deregistration whatever the rollback returned
RolledBack_AlwaysCleanup ==
    /\ pc = "rolledback"
    /\ pc' = "cleanup" /\ UNCHANGED result
    /\ UNCHANGED <<flags, aside, describeServicesOutput, sleeps, oldTaskDefinition, taskDefnArn, err, rollbackErr, waiter,
                   lastResp, service, events, registered, now, calls>>


\* run's branch on rollbackErr after rollbackInstall or the rollback deployUpgrade
RolledBack ==
    /\ pc = "rolledback"
    /\ IF rollbackErr # Nil
       THEN Return(Wrap(rollbackErr, IF cmd = "install" THEN "cannot rollback install"
                                                        ELSE "cannot rollback"))
       ELSE pc' = "cleanup" /\ UNCHANGED result
    /\ UNCHANGED <<flags, aside, describeServicesOutput, sleeps, oldTaskDefinition, taskDefnArn, err, rollbackErr, waiter,
                   lastResp, service, events, registered, now, calls>>

\* run returning nil after the deregistration that follows a rollback
DeregisterTaskDefinition_ReturnsNil ==
    /\ pc \in {"cleanup", "deregisterOld"}
    /\ LET target == IF pc = "cleanup" THEN taskDefnArn ELSE oldTaskDefinition
       IN  \/ /\ calls' = Append(calls, Call("DeregisterTaskDefinition", target, FALSE))
              /\ UNCHANGED registered
           \/ /\ target \in registered
              /\ calls' = Append(calls, Call("DeregisterTaskDefinition", target, TRUE))
              /\ registered' = registered \ {target}
    /\ Return(Nil)
    /\ UNCHANGED <<flags, aside, describeServicesOutput, sleeps, oldTaskDefinition, taskDefnArn, err, rollbackErr, waiter,
                   lastResp, service, events, now>>


\* run returning the error of a failed deregistration of the old definition
DeregisterTaskDefinition_ReturnsItsError ==
    /\ pc \in {"cleanup", "deregisterOld"}
    /\ LET target == IF pc = "cleanup" THEN taskDefnArn ELSE oldTaskDefinition
       IN  \/ /\ calls' = Append(calls, Call("DeregisterTaskDefinition", target, FALSE))
              /\ UNCHANGED registered
              /\ Return(IF pc = "cleanup" THEN err
                        ELSE Error("DeregisterTaskDefinition failed", Len(calls) + 1))
           \/ /\ target \in registered
              /\ calls' = Append(calls, Call("DeregisterTaskDefinition", target, TRUE))
              /\ registered' = registered \ {target}
              /\ Return(IF pc = "cleanup" THEN err ELSE Nil)
    /\ UNCHANGED <<flags, aside, describeServicesOutput, sleeps, oldTaskDefinition, taskDefnArn, err, rollbackErr, waiter,
                   lastResp, service, events, now>>

\* run's best-effort DeregisterTaskDefinition: of the new definition after a
\* rollback, of the old one after a successful upgrade with --deregister
DeregisterTaskDefinition ==
    /\ pc \in {"cleanup", "deregisterOld"}
    /\ LET target == IF pc = "cleanup" THEN taskDefnArn ELSE oldTaskDefinition
       IN  \/ /\ calls' = Append(calls, Call("DeregisterTaskDefinition", target, FALSE))
              /\ UNCHANGED registered
           \/ /\ target \in registered
              /\ calls' = Append(calls, Call("DeregisterTaskDefinition", target, TRUE))
              /\ registered' = registered \ {target}
    /\ Return(IF pc = "cleanup" THEN err ELSE Nil)
    /\ UNCHANGED <<flags, aside, describeServicesOutput, sleeps, oldTaskDefinition, taskDefnArn, err, rollbackErr, waiter,
                   lastResp, service, events, now>>

-----------------------------------------------------------------------------
(* The one-shot task run: taskCmd.run and runTask *)

\* the TaskDefinition of the RunTask input after the --task-definition-arn
\* override
RunTaskDefinition == IF taskDefinitionArn # "" THEN taskDefinitionArn ELSE JsonArn

\* a run that goes on to runTask whatever the lookup returned
TaskDescribeTaskDefinition_IgnoresError ==
    /\ pc = "task"
    /\ calls' = Append(calls, Call("DescribeTaskDefinition", RunTaskDefinition,
                                   RunTaskDefinition \in registered))
    /\ taskDefnArn' = RunTaskDefinition
    /\ pc' = "runTask"
    /\ UNCHANGED <<flags, aside, describeServicesOutput, sleeps, oldTaskDefinition, err, rollbackErr,
                   waiter, lastResp, service, events, registered, now, result>>

\* taskCmd.run up to the call of runTask: parseTask, the overrides and the
\* lookup of the task definition
TaskDescribeTaskDefinition ==
    /\ pc = "task"
    /\ \/ \* mergeValues or ParseTask fails
          /\ Return(Wrap(Error("ParseTask failed", 0), "cannot parse task"))
          /\ UNCHANGED <<taskDefnArn, calls>>
       \/ /\ calls' = Append(calls, Call("DescribeTaskDefinition", RunTaskDefinition,
                                         RunTaskDefinition \in registered))
          /\ IF RunTaskDefinition \in registered
             THEN /\ taskDefnArn' = RunTaskDefinition
                  /\ pc' = "runTask"
                  /\ UNCHANGED result
             ELSE /\ Return(Wrap(Error("DescribeTaskDefinition failed", Len(calls) + 1),
                                 "error retrieving task definition ARN"))
                  /\ UNCHANGED taskDefnArn
    /\ UNCHANGED <<flags, aside, describeServicesOutput, sleeps, oldTaskDefinition, err, rollbackErr,
                   waiter, lastResp, service, events, registered, now>>

\* a task instance the gateway has started, its containers not yet run
StartedTask(i) ==
    [taskArn |-> i, lastStatus |-> "RUNNING",
     containers |-> [c \in 1..NumContainers |-> [name |-> c, exitCode |-> NoExit]]]

\* The replies RunTask can give for a Count of n: a call error, or k instances
\* started and a failure for each of the others.
RunTaskReplies ==
    {[err |-> TRUE, tasks |-> <<>>, failures |-> <<>>]} \cup
    {[err |-> FALSE, tasks |-> [i \in 1..k |-> StartedTask(i)],
      failures |-> [i \in 1..(n - k) |-> "RESOURCE"]] :
        <<n, k>> \in {p \in (1..MaxTasks) \X (0..MaxTasks) : p[2] <= p[1]}}

\* a runTask that waits for whatever was started
RunTask_IgnoresFailures ==
    /\ pc = "runTask"
    /\ \E r \in RunTaskReplies :
         /\ calls' = Append(calls, Call("RunTask", taskDefnArn, ~r.err))
         /\ runTaskOutput' = r
         /\ tasks' = r.tasks
         /\ IF r.err
            THEN /\ Return(Error("RunTask failed", Len(calls) + 1))
                 /\ UNCHANGED <<waiter, lastResp, sleeps>>
            ELSE /\ waiter' = WithHook(TasksStoppedWaiter(DefaultTaskOptions),
                                      Hook("runTask", logLevel))
                 /\ lastResp' = NoResp
                 /\ sleeps' = <<>>
                 /\ pc' = "waitTasks"
                 /\ UNCHANGED result
    /\ UNCHANGED <<flags, describeTasksOutput, output, parsed, deployOutput,
                   describeServicesOutput,
                   oldTaskDefinition, taskDefnArn, err, rollbackErr, service, events,
                   registered, now>>

\* runTask from the RunTask call to the start of the wait
RunTask ==
    /\ pc = "runTask"
    /\ \E r \in RunTaskReplies :
         /\ calls' = Append(calls, Call("RunTask", taskDefnArn, ~r.err))
         /\ runTaskOutput' = r
         /\ tasks' = r.tasks
         /\ IF r.err
            THEN /\ Return(Error("RunTask failed", Len(calls) + 1))
                 /\ UNCHANGED <<waiter, lastResp, sleeps>>
            ELSE IF Len(r.failures) # 0
            THEN /\ Return(Error("failed to start all instances of task", Len(calls) + 1))
                 /\ UNCHANGED <<waiter, lastResp, sleeps>>
            ELSE /\ waiter' = WithHook(TasksStoppedWaiter(DefaultTaskOptions),
                                      Hook("runTask", logLevel))
                 /\ lastResp' = NoResp
                 /\ sleeps' = <<>>
                 /\ pc' = "waitTasks"
                 /\ UNCHANGED result
    /\ UNCHANGED <<flags, describeTasksOutput, output, parsed, deployOutput,
                   describeServicesOutput,
                   oldTaskDefinition, taskDefnArn, err, rollbackErr, service, events,
                   registered, now>>

\* the instances one poll later, those of S having stopped; the waiter reads
\* lastStatus only, the exit codes are read from the final DescribeTasks
TaskFutures(ts, S) ==
    [i \in 1..Len(ts) |-> IF i \in S THEN [ts[i] EXCEPT !.lastStatus = "STOPPED"] ELSE ts[i]]

\* One attempt of WaitUntilTasksStoppedWithContext: the DescribeTasks of the
\* attempt, the acceptor, and the sleep before the next attempt.
PollTasks ==
    /\ pc = "waitTasks"
    /\ waiter.state = "waiting"
    /\ calls' = Append(calls, Call("DescribeTasks", "wait", TRUE))
    /\ \E S \in SUBSET {i \in 1..Len(tasks) : tasks[i].lastStatus = "RUNNING"} :
            LET ts == TaskFutures(tasks, S)
                resp == [failures |-> <<>>, tasks |-> ts]
                r == WaitAttempt(waiter, resp, now)
            IN  /\ tasks' = ts
                /\ lastResp' = resp
                /\ waiter' = r.w
                /\ now' = r.now
                /\ sleeps' = IF r.w.attempt = waiter.attempt THEN sleeps
                             ELSE Append(sleeps, delayFunc(waiter, waiter.attempt))
                /\ output' = output \o r.printed
                /\ CASE r.w.state = "waiting" -> UNCHANGED <<pc, result>>
                     [] r.w.state = "success" -> pc' = "verify" /\ UNCHANGED result
                     [] OTHER -> Return(Wrap(WaiterError(r.w, Len(calls) + 1),
                                             "error while waiting for task instances to complete"))
    /\ UNCHANGED <<flags, runTaskOutput, describeTasksOutput, parsed, deployOutput,
                   describeServicesOutput, oldTaskDefinition, taskDefnArn, err, rollbackErr,
                   service, events, registered>>

\* the instances with the exit codes x of their containers
Exited(ts, x) ==
    [i \in 1..Len(ts) |->
        [ts[i] EXCEPT !.containers = [c \in 1..NumContainers |->
                                        [name |-> c, exitCode |-> x[i][c]]]]]

\* the replies the final DescribeTasks can give: a call error, a failure
\* list, a task list that lacks an instance, or the instances with an exit
\* code (or none) for each of their containers
DescribeTasksReplies ==
    {[err |-> TRUE, tasks |-> <<>>, failures |-> <<>>],
     [err |-> FALSE, tasks |-> <<>>, failures |-> <<"MISSING">>],
     [err |-> FALSE, tasks |-> SubSeq(tasks, 1, Len(tasks) - 1), failures |-> <<>>]} \cup
    {[err |-> FALSE, tasks |-> Exited(tasks, x), failures |-> <<>>] :
        x \in [1..Len(tasks) -> [1..NumContainers -> {NoExit, 0, 1}]]}

\* a loop that takes a container without exit code for one that succeeded
VerifyTasks_IgnoresNoExit(ts, id) ==
    IF \E i \in 1..Len(ts) : \E c \in 1..Len(ts[i].containers) :
           ts[i].containers[c].exitCode = 1
    THEN LET i == CHOOSE a \in 1..Len(ts) : \E c \in 1..Len(ts[a].containers) :
                      ts[a].containers[c].exitCode = 1
             c == CHOOSE a \in 1..Len(ts[i].containers) : ts[i].containers[a].exitCode = 1
         IN  TaskError("container exited with non-zero exit code", id, i, c)
    ELSE Nil

\* runTask's loop over the tasks and their containers: the error of the first
\* task that is not stopped or has a container without exit code 0, Nil when
\* there is none
VerifyTasks(ts, id) ==
    LET badc(t) == {c \in 1..Len(t.containers) : t.containers[c].exitCode # 0}
        bad == {i \in 1..Len(ts) : ts[i].lastStatus # "STOPPED" \/ badc(ts[i]) # {}}
    IN  IF bad = {} THEN Nil
        ELSE LET i == CHOOSE a \in bad : \A b \in bad : a <= b
                 t == ts[i]
             IN  IF t.lastStatus # "STOPPED"
                 THEN TaskError("expected all tasks to be stopped", id, t.taskArn, 0)
                 ELSE LET c == CHOOSE a \in badc(t) : \A b \in badc(t) : a <= b
                      IN  IF t.containers[c].exitCode = NoExit
                          THEN TaskError("container has no exit code", id, t.taskArn,
                                         t.containers[c].name)
                          ELSE TaskError("container exited with non-zero exit code", id,
                                         t.taskArn, t.containers[c].name)

\* runTask after the wait: the final DescribeTasks and the checks on it
DescribeTasks ==
    /\ pc = "verify"
    /\ \E r \in DescribeTasksReplies :
         LET id == Len(calls) + 1
         IN  /\ calls' = Append(calls, Call("DescribeTasks", "verify", ~r.err))
             /\ describeTasksOutput' = r
             /\ IF r.err
                THEN Return(Wrap(Error("DescribeTasks failed", id),
                                 "unable to retrive task statuses during verification"))
                ELSE IF Len(r.failures) # 0
                THEN Return(Error("failures occured while running tasks", id))
                ELSE IF Len(r.tasks) # Len(runTaskOutput.tasks)
                THEN Return(Error("retrieved info about fewer tasks", id))
                ELSE Return(VerifyTasks(r.tasks, id))
    /\ UNCHANGED <<flags, tasks, runTaskOutput, output, parsed, deployOutput,
                   describeServicesOutput, sleeps,
                   oldTaskDefinition, taskDefnArn, err, rollbackErr, waiter, lastResp,
                   service, events, registered, now>>

-----------------------------------------------------------------------------
(* tasks.ParseTaskDefinition *)

\* the longest task definition template, in tokens
MaxTemplateLen == 3

\* A template is the sequence of its tokens: the JSON text "{", "}" and
\* "member" (a complete member of the object), and the actions "ref" (renders
\* a value that was provided as a member), "missing" (refers to a value that
\* was not provided), "fail" (its execution fails for another reason, such as
\* a call that returns an error) and "unclosed" (not a well-formed action).
Tokens == {"{", "}", "member", "ref", "missing", "fail", "unclosed"}

\* a file that ReadFileOrURI cannot read
Unreadable == <<"unreadable">>

Templates == UNION {[1..n -> Tokens] : n \in 0..MaxTemplateLen}

\* template.New(defnFilename).Option(templateOption).Parse(string(rawDefn))
Parse(tmpl) ==
    IF \E i \in 1..Len(tmpl) : tmpl[i] = "unclosed"
    THEN "Error parsing task definition template" ELSE ""

\* tmpl.Execute(&defn, values) under missingkey=error (strict) or
\* missingkey=zero: the text written to defn and the error returned.  The
\* execution stops at the first action that fails and what was written until
\* then stays in the buffer; with missingkey=zero a missing value of the
\* values map is written as "<no value>".
RECURSIVE Execute(_, _)
Execute(tmpl, isStrict) ==
    IF tmpl = <<>> THEN [out |-> <<>>, err |-> FALSE]
    ELSE LET t == Head(tmpl)
             rest == Execute(Tail(tmpl), isStrict)
         IN  CASE t = "fail" -> [out |-> <<>>, err |-> TRUE]
               [] t = "missing" /\ isStrict -> [out |-> <<>>, err |-> TRUE]
               [] t = "missing" /\ ~isStrict ->
                     [out |-> <<"<no value>">> \o rest.out, err |-> rest.err]
               [] t = "ref" -> [out |-> <<"member">> \o rest.out, err |-> rest.err]
               [] OTHER -> [out |-> <<t>> \o rest.out, err |-> rest.err]

\* strings.Replace(defn.String(), "<no value>", "", -1)
Filter(out) == SelectSeq(out, LAMBDA c : c # "<no value>")

\* json.Unmarshal([]byte(filteredDefn), &taskDefn): the text is an object
Unmarshal(text) ==
    IF /\ Len(text) >= 2
       /\ text[1] = "{"
       /\ text[Len(text)] = "}"
       /\ \A i \in 2..(Len(text) - 1) : text[i] = "member"
    THEN [defn |-> SubSeq(text, 2, Len(text) - 1), err |-> ""]
    ELSE [defn |-> Null, err |-> "Error parsing JSON of task definition"]

\* ParseTaskDefinition(defnFilename, values, strict).  The statement
\*   if tmpl.Execute(&defn, values); err != nil
\* runs Execute, drops what it returns, and tests err, which is still the
\* error Parse returned (parseErr).
ParseTaskDefinitionOf(tmpl, isStrict) ==
    IF tmpl = Unreadable
    THEN [defn |-> Null, err |-> "Error reading task definition"]
    ELSE LET parseErr == Parse(tmpl)
         IN  IF parseErr # ""
             THEN [defn |-> Null, err |-> parseErr]
             ELSE LET defn == Execute(tmpl, isStrict).out
                  IN  IF parseErr # ""
                      THEN [defn |-> Null, err |-> "Error executing task definition template"]
                      ELSE Unmarshal(Filter(defn))

\* a call of ParseTaskDefinition on the template
ParseTaskDefinition ==
    /\ pc = "parse"
    /\ parsed' = ParseTaskDefinitionOf(template, strict)
    /\ pc' = "done"
    /\ UNCHANGED <<flags, tasks, runTaskOutput, describeTasksOutput, output, deployOutput,
                   describeServicesOutput, sleeps, oldTaskDefinition, taskDefnArn, err,
                   rollbackErr, result, waiter, lastResp, service, events, registered, now, calls>>

\* a task definition file, --strict or not, before the call
InitParse ==
    /\ cmd = "register"
    /\ args = <<TaskDefnFile>>
    /\ rollback = FALSE
    /\ deregister = FALSE
    /\ taskDefinitionArn = ""
    /\ timeout = 0
    /\ dryRun = TRUE
    /\ logLevel = "info"
    /\ strict \in BOOLEAN
    /\ template \in Templates \cup {Unreadable}
    /\ pc = "parse"
    /\ oldTaskDefinition = Null
    /\ taskDefnArn = ""
    /\ err = Nil
    /\ rollbackErr = Nil
    /\ result = NotReturned
    /\ waiter = NoWaiter
    /\ lastResp = NoResp
    /\ sleeps = <<>>
    /\ describeServicesOutput = NoReply
    /\ service = [status |-> "NONE", taskDefinition |-> Null]
    /\ events = {}
    /\ registered = {OldArn}
    /\ now = TicksPerSecond
    /\ calls = <<>>
    /\ tasks = <<>>
    /\ runTaskOutput = NoRunTaskOutput
    /\ describeTasksOutput = NoRunTaskOutput
    /\ output = <<>>
    /\ parsed = NotParsed
    /\ deployOutput = NoDeployOutput

SpecParse == InitParse /\ [][ParseTaskDefinition]_vars

-----------------------------------------------------------------------------

Next ==
    \/ RunE
    \/ DescribeServices
    \/ RegisterTaskDefinition
    \/ DescribeTaskDefinition
    \/ CreateService
    \/ UpdateService
    \/ DeleteService
    \/ PollRound
    \/ Deployed
    \/ RolledBack
    \/ DeregisterTaskDefinition
    \/ TaskDescribeTaskDefinition
    \/ RunTask
    \/ PollTasks
    \/ DescribeTasks

Spec == Init /\ [][Next]_vars

-----------------------------------------------------------------------------
(* WaiterDelay on its own: a wait configured by WaiterDelay(timeout, d) for  *)
(* every timeout and base delay within the bounds, polled until its attempt  *)
(* budget is spent or the service is seen inactive.                          *)

MaxWaitTimeout == 12
MaxWaitDelay == 4

InitWaiterDelay ==
    /\ cmd = "install"
    /\ args = <<Cluster, TaskDefnFile>>
    /\ rollback = TRUE
    /\ deregister = FALSE
    /\ taskDefinitionArn = ""
    /\ timeout \in 0..MaxWaitTimeout
    /\ pc = "wait"
    /\ oldTaskDefinition = Null
    /\ taskDefnArn = NewArn
    /\ err = Error("exceeded wait attempts", 0)
    /\ rollbackErr = Nil
    /\ result = NotReturned
    /\ \E d \in 1..MaxWaitDelay : waiter = InactiveWaiter(WaiterDelay(timeout, d), "rollback")
    /\ lastResp = NoResp
    /\ sleeps = <<>>
    /\ describeServicesOutput = NoReply
    /\ service = [status |-> "DRAINING", taskDefinition |-> NewArn]
    /\ events = {}
    /\ registered = {NewArn}
    /\ now = TicksPerSecond
    /\ calls = <<>>
    /\ dryRun = FALSE
    /\ logLevel = "info"
    /\ strict = FALSE
    /\ template = NoTemplate
    /\ tasks = <<>>
    /\ runTaskOutput = NoRunTaskOutput
    /\ describeTasksOutput = NoRunTaskOutput
    /\ output = <<>>
    /\ parsed = NotParsed
    /\ deployOutput = NoDeployOutput

SpecWaiterDelay == InitWaiterDelay /\ [][PollRound]_vars

-----------------------------------------------------------------------------
(* Properties *)

HasCall(op) == \E i \in 1..Len(calls) : calls[i].op = op
CallCount(op) == Cardinality({i \in 1..Len(calls) : calls[i].op = op})
LastCall == calls[Len(calls)]
WaitFailed(e) == e.msg \in {"failed waiting for successful resource state",
                            "exceeded wait attempts"}
HasMissing(f) == \E i \in 1..Len(f) : f[i] = "MISSING"
Described1 == describeServicesOutput # NoReply /\ ~describeServicesOutput.err

\* C1: when CreateService or the stability wait of install fails, install
\* returns a non-nil error with or without --rollback, and it returns nil only
\* when the service was created and became stable.
C1_InstallFailureReturnsError ==
    (cmd = "install" /\ pc = "done") =>
        /\ err # Nil => result # Nil
        /\ result = Nil =>
             /\ \E i \in 1..Len(calls) : calls[i].op = "CreateService" /\ calls[i].ok
             /\ waiter.name = "ServicesStable" /\ waiter.state = "success"

\* C2: install goes on to registration when DescribeServices reports the
\* service as MISSING with no matching service, and answers already-exists
\* only when a matching service was returned; upgrade answers does-not-exist
\* only when a failure is the MISSING one.
C2_BranchOnMissing ==
    /\ (/\ cmd = "install"
        /\ Described1
        /\ HasMissing(describeServicesOutput.failures)
        /\ MatchingTaskDefinition(describeServicesOutput.services) = Null)
       => ~(pc = "done" /\ Len(calls) = 1)
    /\ (cmd = "install" /\ result.msg = "Service already exists in cluster")
       => MatchingTaskDefinition(describeServicesOutput.services) # Null
    /\ (cmd = "upgrade" /\ result.msg = "Service does not exist in cluster")
       => HasMissing(describeServicesOutput.failures)

\* install with --rollback has returned after its stability wait failed
InstallRollbackCase ==
    cmd = "install" /\ pc = "done" /\ rollback /\ WaitFailed(err)

\* C3 as stated: after the failed stability wait of an install with --rollback
\* the calls are DeleteService, the inactive polls, DeregisterTaskDefinition of
\* the new definition, none of them earlier; install returns non-nil and the
\* new definition is not registered afterwards.
C3_InstallRollbackSequence ==
    InstallRollbackCase =>
        LET k == err.id
            n == Len(calls)
        IN  /\ \A i \in 1..k : calls[i].op \notin {"DeleteService", "DeregisterTaskDefinition"}
            /\ n >= k + 3
            /\ calls[k + 1].op = "DeleteService"
            /\ \A i \in (k + 2)..(n - 1) : calls[i].op = "DescribeServices"
            /\ calls[n].op = "DeregisterTaskDefinition" /\ calls[n].arg = taskDefnArn
            /\ result # Nil
            /\ taskDefnArn \notin registered

\* C3 amended: DeleteService is the first call after the failed stability
\* wait; the inactive polls follow only a successful DeleteService and the
\* DeregisterTaskDefinition of the new definition only a successful inactive
\* wait, as the last call; install returns non-nil; the new definition is not
\* registered afterwards when that deregistration succeeded.
C3_InstallRollbackSequenceAmended ==
    InstallRollbackCase =>
        LET k == err.id
            n == Len(calls)
        IN  /\ \A i \in 1..k : calls[i].op \notin {"DeleteService", "DeregisterTaskDefinition"}
            /\ n >= k + 1
            /\ calls[k + 1].op = "DeleteService"
            /\ ~calls[k + 1].ok => n = k + 1
            /\ calls[k + 1].ok => n >= k + 2 /\ calls[k + 2].op = "DescribeServices"
            /\ \A i \in (k + 2)..n :
                 \/ calls[i].op = "DescribeServices"
                 \/ /\ i = n
                    /\ calls[i].op = "DeregisterTaskDefinition"
                    /\ calls[i].arg = taskDefnArn
                    /\ waiter.name = "ServicesInactive" /\ waiter.state = "success"
            /\ (waiter.name = "ServicesInactive" /\ waiter.state = "success")
                 => calls[n].op = "DeregisterTaskDefinition"
            /\ result # Nil
            /\ (calls[n].op = "DeregisterTaskDefinition" /\ calls[n].ok)
                 => taskDefnArn \notin registered

C3_Witness ==
    /\ InstallRollbackCase
    /\ LastCall.op = "DeregisterTaskDefinition" /\ LastCall.ok
    /\ taskDefnArn = NewArn /\ NewArn \notin registered
    /\ result = err

\* C4: an install whose stability wait succeeded returns nil and has called
\* neither DeleteService nor DeregisterTaskDefinition, with or without
\* --rollback.
C4_InstallSuccess ==
    (cmd = "install" /\ waiter.name = "ServicesStable" /\ waiter.state = "success") =>
        /\ pc \in {"deployed", "done"}
        /\ pc = "done" => result = Nil
        /\ ~HasCall("DeleteService")
        /\ ~HasCall("DeregisterTaskDefinition")

C4_Witness ==
    /\ cmd = "install" /\ rollback /\ pc = "done" /\ result = Nil
    /\ waiter.name = "ServicesStable" /\ waiter.state = "success"
    /\ describeServicesOutput.services = <<>>
    /\ \E i \in 1..Len(calls) : calls[i].op = "RegisterTaskDefinition" /\ calls[i].ok

C6_UpgradeRollbackConverged ==
    (/\ cmd = "upgrade" /\ pc = "done" /\ rollback /\ err # Nil
     /\ waiter.phase = "rollback" /\ waiter.state = "success") =>
        /\ CallCount("DeregisterTaskDefinition") = 1
        /\ LastCall.op = "DeregisterTaskDefinition" /\ LastCall.arg = taskDefnArn
        /\ result = err
        /\ result # Nil

C6_Witness ==
    /\ cmd = "upgrade" /\ pc = "done" /\ rollback /\ WaitFailed(err)
    /\ waiter.phase = "rollback" /\ waiter.state = "success"
    /\ LastCall.op = "DeregisterTaskDefinition" /\ ~LastCall.ok
    /\ result = err

\* C7: an install with --rollback whose deploy failed returns the rollback
\* error and calls no DeregisterTaskDefinition when the rollback failed; when
\* the rollback succeeded it returns the deploy failure, also when the
\* DeregisterTaskDefinition failed.
C7_InstallRollbackResult ==
    (cmd = "install" /\ pc = "done" /\ rollback /\ err # Nil) =>
        IF rollbackErr # Nil
        THEN /\ result = Wrap(rollbackErr, "cannot rollback install")
             /\ result.id # err.id
             /\ ~HasCall("DeregisterTaskDefinition")
        ELSE /\ result = err
             /\ CallCount("DeregisterTaskDefinition") = 1

C7_Witness ==
    /\ cmd = "install" /\ pc = "done" /\ rollback /\ WaitFailed(err)
    /\ WaitFailed(rollbackErr)
    /\ result = Wrap(rollbackErr, "cannot rollback install")

\* the response has an event with the failure marker timestamped after origin
PostOriginMarker(resp, origin) ==
    \E i \in 1..Len(resp.services) : \E e \in resp.services[i].events :
        Contains(e.message, "unable") /\ e.createdAt > origin

\* the response has an event with the failure marker timestamped at or before origin
StaleMarker(resp, origin) ==
    \E i \in 1..Len(resp.services) : \E e \in resp.services[i].events :
        Contains(e.message, "unable") /\ e.createdAt <= origin

\* the stability waiter has made an attempt and lastResp is its response
StablePolled == waiter.name = "ServicesStable" /\ lastResp # NoResp

\* C8: a poll round of the stability waiter whose response carries an event
\* with the marker 'unable' timestamped strictly after the origin ends the
\* wait with a failure on that round, whatever is left of the budget.
C8_EarlyAbort ==
    (StablePolled /\ PostOriginMarker(lastResp, waiter.createdAt)) =>
        waiter.state = "failure"

C10_WaiterDelayBudget ==
    timeout > 0 =>
        LET d == waiter.defaultDelay
            q == CHOOSE n \in 0..timeout : n * d <= timeout /\ timeout < (n + 1) * d
            r == timeout - q * d
            budget == IF r = 0 THEN q + 1 ELSE q + 2
            final == IF r = 0 THEN d ELSE r
        IN  /\ waiter.maxAttempts = budget
            /\ Len(sleeps) <= budget - 1
            /\ \A i \in 1..Len(sleeps) : sleeps[i] = IF i = budget - 1 THEN final ELSE d
            /\ waiter.state = "timeout" => Len(sleeps) = budget - 1

C10_Witness ==
    /\ timeout > waiter.defaultDelay
    /\ timeout % waiter.defaultDelay # 0
    /\ waiter.state = "timeout"
    /\ Len(sleeps) >= 2
    /\ sleeps[Len(sleeps)] = timeout % waiter.defaultDelay
    /\ sleeps[1] = waiter.defaultDelay

RECURSIVE SumSeq(_)
SumSeq(s) == IF s = <<>> THEN 0 ELSE Head(s) + SumSeq(Tail(s))

\* C11: for timeout > 0 and d > 0 the waits the waiter performs, one after
\* each attempt except the last, never add up to more than timeout, and when
\* the whole attempt budget was used they add up to more than timeout - d.
C11_TotalWait ==
    timeout > 0 =>
        /\ SumSeq(sleeps) <= timeout
        /\ Len(sleeps) = waiter.attempt - 1
        /\ waiter.state = "timeout" => timeout - SumSeq(sleeps) < waiter.defaultDelay

C11_Witness ==
    /\ timeout > 0 /\ timeout < waiter.defaultDelay
    /\ waiter.state = "timeout"
    /\ waiter.attempt = 2
    /\ SumSeq(sleeps) = timeout

\* the least n with n * d >= t
Ceil(t, d) == CHOOSE n \in 0..t : n * d >= t /\ (n = 0 \/ (n - 1) * d < t)

\* C12 as stated: the number of attempts WaiterDelay configures is
\* ceil(timeout / d); 600 and 15 give 40 attempts, 70 and 15 give 5 attempts
\* and a last wait of 10.
C12_AttemptsAreCeil ==
    /\ timeout > 0 => waiter.maxAttempts = Ceil(timeout, waiter.defaultDelay)
    /\ WaiterDelay(600, 15).maxAttempts = 40
    /\ WaiterDelay(600, 15).lastDelay = 15
    /\ WaiterDelay(70, 15).maxAttempts = 5
    /\ WaiterDelay(70, 15).lastDelay = 10

\* C12 amended: the number of waits between attempts is ceil(timeout / d) and
\* the number of attempts is one more; 600 and 15 give 41 attempts with 40
\* waits of 15, 70 and 15 give 6 attempts with 5 waits, the last of them 10.
C12_WaitsAreCeil ==
    /\ timeout > 0 =>
          /\ waiter.maxAttempts = Ceil(timeout, waiter.defaultDelay) + 1
          /\ waiter.state = "timeout" => Len(sleeps) = Ceil(timeout, waiter.defaultDelay)
    /\ WaiterDelay(600, 15).maxAttempts = 41
    /\ \A a \in 1..40 : delayFunc(WaiterDelay(600, 15), a) = 15
    /\ WaiterDelay(70, 15).maxAttempts = 6
    /\ \A a \in 1..4 : delayFunc(WaiterDelay(70, 15), a) = 15
    /\ delayFunc(WaiterDelay(70, 15), 5) = 10

C12_Witness ==
    /\ timeout > 0 /\ timeout % waiter.defaultDelay = 0
    /\ waiter.state = "timeout"
    /\ Len(sleeps) = timeout \div waiter.defaultDelay
    /\ waiter.attempt = Len(sleeps) + 1
    /\ Len(sleeps) >= 3

\* the wait in progress (or the last one) was configured by install with
\* --timeout 0
UnboundedWait == cmd = "install" /\ timeout = 0 /\ waiter # NoWaiter

-----------------------------------------------------------------------------
(* One invocation of install with a timeout > 0 that keeps running: the     *)
(* process takes its next step whenever it has one (a gateway call returns,  *)
(* a sleep ends).                                                            *)

\* the commands that wait, under --quiet, neither flag, or --debug: install
\* (with its rollback), upgrade without --rollback, and task
InitHooks ==
    /\ Invocation({"fatal", "info", "debug"}, {GivenArn})
    /\ cmd # "register"
    /\ cmd = "install" => timeout = defaultDelay
    /\ cmd = "upgrade" => ~rollback
    /\ events = {}

SpecHooks == InitHooks /\ [][Next]_vars

InitInstall == Init /\ cmd = "install" /\ timeout > 0

NextInstall ==
    \/ RunE
    \/ DescribeServices
    \/ RegisterTaskDefinition
    \/ DescribeTaskDefinition
    \/ CreateService
    \/ DeleteService
    \/ PollRound
    \/ Deployed
    \/ RolledBack
    \/ DeregisterTaskDefinition

SpecInstallFair == InitInstall /\ [][NextInstall]_vars /\ WF_vars(NextInstall)

\* the polls of the wait in progress (or of the last wait): the
\* DescribeServices calls after the last successful CreateService,
\* UpdateService or DeleteService
PollsOfWait ==
    LET starts == {i \in 1..Len(calls) :
                     /\ calls[i].op \in {"CreateService", "UpdateService", "DeleteService"}
                     /\ calls[i].ok}
        s == IF starts = {} THEN Len(calls)
             ELSE CHOOSE i \in starts : \A j \in starts : j <= i
    IN  Cardinality({i \in (s + 1)..Len(calls) : calls[i].op = "DescribeServices"})

\* a wait of install configured with a timeout > 0
BoundedWait == cmd = "install" /\ timeout > 0 /\ waiter # NoWaiter

\* C14: for timeout > 0 the stability wait and the inactive wait of install
\* make at most maxAttempts polls; a wait whose last permitted attempt matched
\* no acceptor has ended with the exceeded-attempts failure; and install
\* returns eventually.
C14_BoundedWaitTerminates ==
    /\ [](BoundedWait =>
            /\ waiter.maxAttempts >= 2
            /\ waiter.attempt <= waiter.maxAttempts
            /\ PollsOfWait <= waiter.maxAttempts
            /\ waiter.state = "waiting" => PollsOfWait = waiter.attempt - 1
            /\ (PollsOfWait = waiter.maxAttempts /\ waiter.matched = 0)
                 => /\ waiter.state = "timeout"
                    /\ (IF waiter.phase = "forward" THEN err ELSE rollbackErr).msg
                         = "exceeded wait attempts")
    /\ ((cmd = "install" /\ timeout > 0) ~> (pc = "done"))

C14_Witness ==
    /\ BoundedWait /\ pc = "done"
    /\ waiter.name = "ServicesInactive" /\ waiter.state = "timeout"
    /\ err.msg = "exceeded wait attempts" /\ rollbackErr.msg = "exceeded wait attempts"
    /\ PollsOfWait = waiter.maxAttempts
    /\ result.wrap = "cannot rollback install"

\* upgrade has received a DescribeServices response without a call error
UpgradeDescribed == cmd = "upgrade" /\ Described1

OnlyDescribed ==
    /\ pc = "done"
    /\ Len(calls) = 1 /\ calls[1].op = "DescribeServices"
    /\ ~HasCall("RegisterTaskDefinition")
    /\ ~HasCall("DescribeTaskDefinition")
    /\ ~HasCall("UpdateService")

\* C15: upgrade returns the does-not-exist error when some failure of the
\* DescribeServices response has the reason MISSING, the generic retrieval
\* error on any other non-empty failure list, and an error when the response
\* lists no matching service; in the three cases it has made no
\* RegisterTaskDefinition, DescribeTaskDefinition or UpdateService call.
C15_UpgradeMissing ==
    UpgradeDescribed =>
        LET f == describeServicesOutput.failures
            none == MatchingTaskDefinition(describeServicesOutput.services) = Null
        IN  /\ HasMissing(f) =>
                 result.msg = "Service does not exist in cluster" /\ OnlyDescribed
            /\ (f # <<>> /\ ~HasMissing(f)) =>
                 result.msg = "Error retrieving information about existing service" /\ OnlyDescribed
            /\ (f = <<>> /\ none) =>
                 /\ result.msg = "no error/failure during DescribeServices but service not found in response"
                 /\ OnlyDescribed
            /\ (f = <<>> /\ ~none) => result.msg \notin
                 {"Service does not exist in cluster",
                  "Error retrieving information about existing service",
                  "no error/failure during DescribeServices but service not found in response"}

C15_Witness ==
    /\ UpgradeDescribed
    /\ describeServicesOutput.failures = <<"ACCESS", "MISSING">>
    /\ result.msg = "Service does not exist in cluster"
    /\ OnlyDescribed

UsageError == "exactly one of a task definition JSON filename or a task definition ARN must be provided"

\* the command line names a task definition exactly once: by the file
\* argument or by --task-definition-arn
ExactlyOne == (Len(args) >= FileArgs) # (taskDefinitionArn # "")

\* C16: install and upgrade given both the file argument and
\* --task-definition-arn, or neither, return the usage error without having
\* made a gateway call; given exactly one they go on to run and never return
\* the usage error.
C16_UsageError ==
    (cmd \in {"install", "upgrade"} /\ pc # "RunE") =>
        IF ExactlyOne
        THEN /\ result.msg # UsageError
             /\ pc = "describe" \/ Len(calls) >= 1
             /\ Len(calls) >= 1 => calls[1].op = "DescribeServices"
        ELSE /\ pc = "done"
             /\ result.msg = UsageError
             /\ result # Nil
             /\ calls = <<>>
             /\ describeServicesOutput = NoReply
             /\ registered \cap {NewArn} = {}

C16_Witness ==
    /\ cmd = "install" /\ Len(args) >= FileArgs /\ taskDefinitionArn # ""
    /\ pc = "done" /\ result.msg = UsageError
    /\ calls = <<>>

\* run was given --task-definition-arn and no file
ArnGiven == taskDefinitionArn # "" /\ Len(args) < FileArgs

\* C17: given --task-definition-arn, install and upgrade look that identifier
\* up with DescribeTaskDefinition before they deploy and never call
\* RegisterTaskDefinition; when the lookup fails they return an error and
\* call neither CreateService nor UpdateService.
C17_ReuseGivenDefinition ==
    ArnGiven =>
        LET looked == {i \in 1..Len(calls) : calls[i].op = "DescribeTaskDefinition"}
        IN  /\ ~HasCall("RegisterTaskDefinition")
            /\ Cardinality(looked) <= 1
            /\ \A i \in looked : calls[i].arg = taskDefinitionArn
            /\ \A j \in 1..Len(calls) :
                 calls[j].op \in {"CreateService", "UpdateService"} =>
                     \E i \in looked : i < j /\ calls[i].ok
            /\ \A i \in looked : ~calls[i].ok =>
                 /\ pc = "done"
                 /\ result # Nil /\ result.wrap = "cannot retrieve task definition"
                 /\ i = Len(calls)
                 /\ ~HasCall("CreateService") /\ ~HasCall("UpdateService")
            /\ \A i \in looked : calls[i].ok => taskDefnArn = taskDefinitionArn

C17_Witness ==
    /\ ArnGiven /\ cmd = "upgrade" /\ Len(calls) = 2
    /\ LastCall.op = "DescribeTaskDefinition" /\ ~LastCall.ok
    /\ result.wrap = "cannot retrieve task definition"

\* C18: an invocation of register, install or upgrade makes at most one
\* RegisterTaskDefinition call; when the gateway rejects it the command has
\* returned that error with the rejected call as its last gateway call, and
\* has called none of CreateService, UpdateService, DeleteService and
\* DeregisterTaskDefinition.
C18_SingleRegistration ==
    /\ CallCount("RegisterTaskDefinition") <= 1
    /\ \A i \in 1..Len(calls) :
         (calls[i].op = "RegisterTaskDefinition" /\ ~calls[i].ok) =>
             /\ i = Len(calls)
             /\ pc = "done"
             /\ result = Wrap(Error("RegisterTaskDefinition failed", i),
                              "cannot register task definition")
             /\ ~HasCall("CreateService") /\ ~HasCall("UpdateService")
             /\ ~HasCall("DeleteService") /\ ~HasCall("DeregisterTaskDefinition")
             /\ NewArn \notin registered

C18_Witness ==
    /\ cmd = "install" /\ rollback /\ pc = "done"
    /\ Len(calls) = 2
    /\ calls[2] = Call("RegisterTaskDefinition", TaskDefnFile, FALSE)
    /\ result.wrap = "cannot register task definition"

\* upgrade has returned after its forward deploy converged
UpgradeSucceeded ==
    /\ cmd = "upgrade" /\ pc = "done" /\ err = Nil
    /\ waiter.phase = "forward" /\ waiter.state = "success"

\* upgrade has returned after its forward deploy failed
UpgradeFailed ==
    /\ cmd = "upgrade" /\ pc = "done" /\ err # Nil

\* the DeregisterTaskDefinition calls made for the definition arn
Deregistrations(arn) ==
    {i \in 1..Len(calls) : calls[i].op = "DeregisterTaskDefinition" /\ calls[i].arg = arn}

\* C19: an upgrade whose service converged on the new definition returns nil;
\* it has called DeregisterTaskDefinition once, for the old definition and as
\* its last call, when --deregister was given, and not at all otherwise; the
\* result is nil whether that call succeeded or not.
C19_UpgradeSuccess ==
    UpgradeSucceeded =>
        /\ result = Nil
        /\ service.taskDefinition = taskDefnArn
        /\ ~HasCall("DeleteService")
        /\ CallCount("UpdateService") = 1
        /\ IF deregister
           THEN /\ CallCount("DeregisterTaskDefinition") = 1
                /\ Deregistrations(oldTaskDefinition) = {Len(calls)}
                /\ oldTaskDefinition = OldArn
                /\ LastCall.ok <=> OldArn \notin registered
           ELSE /\ ~HasCall("DeregisterTaskDefinition")
                /\ OldArn \in registered

C19_Witness ==
    /\ UpgradeSucceeded /\ deregister
    /\ LastCall = Call("DeregisterTaskDefinition", OldArn, FALSE)
    /\ OldArn \in registered
    /\ result = Nil

\* C20: with --deregister an upgrade that succeeded has called
\* DeregisterTaskDefinition for the old definition, and an upgrade that failed
\* after it registered a new definition has called it for the new definition.
C20_DeregisterFlag ==
    (cmd = "upgrade" /\ deregister /\ pc = "done") =>
        /\ UpgradeSucceeded => Deregistrations(oldTaskDefinition) # {}
        /\ (UpgradeFailed /\ taskDefnArn = NewArn) => Deregistrations(NewArn) # {}

-----------------------------------------------------------------------------
(* The one-shot task run *)

\* RunTask was called and answered with at least one start failure
StartFailed ==
    /\ cmd = "task"
    /\ HasCall("RunTask")
    /\ ~runTaskOutput.err
    /\ Len(runTaskOutput.failures) # 0

\* C21: when RunTask reports a start failure the task command has failed at
\* once with the failed-to-start error, even when some instances started: no
\* waiter was made and no DescribeTasks call, neither a poll nor the final
\* one, follows the RunTask call.
C21_StartFailureFailsAtOnce ==
    StartFailed =>
        /\ pc = "done"
        /\ result.msg = "failed to start all instances of task"
        /\ waiter = NoWaiter
        /\ ~HasCall("DescribeTasks")
        /\ LastCall.op = "RunTask"

C21_Witness ==
    /\ StartFailed
    /\ Len(runTaskOutput.tasks) > 0
    /\ pc = "done"

\* the task command has returned
TaskDone == cmd = "task" /\ pc = "done"

\* the final DescribeTasks answered with every started instance
VerifiedReply ==
    /\ describeTasksOutput # NoRunTaskOutput
    /\ ~describeTasksOutput.err
    /\ Len(describeTasksOutput.failures) = 0
    /\ Len(describeTasksOutput.tasks) = Len(runTaskOutput.tasks)

\* the <<task, container>> pairs of ts whose exit code is not 0
BadContainers(ts) ==
    {p \in (1..Len(ts)) \X (1..NumContainers) : ts[p[1]].containers[p[2]].exitCode # 0}

\* C22: the task command returns nil exactly when RunTask reported no error
\* and no failure, the wait for the stopped state succeeded, and the final
\* DescribeTasks shows exit code 0 for every container of every started task;
\* when that reply has a container whose exit code is not 0 the error names
\* such a task and container, with one message for a nonzero exit code and a
\* different one for a container that has no exit code.
C22_TaskResult ==
    TaskDone =>
        /\ (result = Nil) <=>
              /\ HasCall("RunTask")
              /\ ~runTaskOutput.err
              /\ Len(runTaskOutput.failures) = 0
              /\ waiter.state = "success"
              /\ VerifiedReply
              /\ BadContainers(describeTasksOutput.tasks) = {}
        /\ (VerifiedReply /\ BadContainers(describeTasksOutput.tasks) # {}) =>
              /\ result.msg \in {"container has no exit code",
                                 "container exited with non-zero exit code"}
              /\ <<result.task, result.container>> \in BadContainers(describeTasksOutput.tasks)
              /\ (result.msg = "container has no exit code") <=>
                    (describeTasksOutput.tasks[result.task].containers[result.container].exitCode
                        = NoExit)

C22_Witness ==
    /\ TaskDone
    /\ VerifiedReply
    /\ result.msg = "container exited with non-zero exit code"
    /\ result.task = 2
    /\ describeTasksOutput.tasks[1].containers[1].exitCode = 0
    /\ \E p \in BadContainers(describeTasksOutput.tasks) :
          describeTasksOutput.tasks[p[1]].containers[p[2]].exitCode = NoExit

\* the position of the RunTask call in the log of a task run
RunTaskAt == CHOOSE i \in 1..Len(calls) : calls[i].op = "RunTask"

\* C23 as stated: the task command registers a task definition through the
\* gateway before it calls RunTask.
C23_RegistersBeforeRunTask ==
    (cmd = "task" /\ HasCall("RunTask")) =>
        \E i \in 1..(RunTaskAt - 1) : calls[i].op = "RegisterTaskDefinition"

\* C23: the task command looks the task definition up through the gateway
\* before it calls RunTask: a successful DescribeTaskDefinition of the
\* definition that is run precedes the RunTask call, and the task path makes
\* no RegisterTaskDefinition call.
C23_LooksUpBeforeRunTask ==
    (cmd = "task" /\ HasCall("RunTask")) =>
        /\ \E i \in 1..(RunTaskAt - 1) :
              /\ calls[i].op = "DescribeTaskDefinition"
              /\ calls[i].ok
              /\ calls[i].arg = calls[RunTaskAt].arg
              /\ calls[i].arg = RunTaskDefinition
        /\ ~HasCall("RegisterTaskDefinition")

C23_Witness ==
    /\ cmd = "task"
    /\ HasCall("RunTask")
    /\ taskDefinitionArn = GivenArn
    /\ calls[RunTaskAt].ok

-----------------------------------------------------------------------------
(* Precedence of the acceptors within one poll round *)

\* the last response of the stability waiter shows every service stable and
\* none missing, draining or inactive
StableResponse ==
    /\ StablePolled
    /\ Len(lastResp.failures) = 0
    /\ Len(lastResp.services) > 0
    /\ \A i \in 1..Len(lastResp.services) :
          lastResp.services[i].stable /\ lastResp.services[i].status = "ACTIVE"

\* a wait on the service has ended on an acceptor
WaitEndedOnAcceptor ==
    /\ waiter.name \in {"ServicesStable", "ServicesInactive"}
    /\ waiter.state \in {"success", "failure"}

\* C24: a stable response ends the stability wait with success on the stable
\* acceptor, also when it carries an event with the marker timestamped after
\* the origin; and a wait that ended on an acceptor, failure or success, made
\* exactly as many polls as the attempt it ended on: the response that matched
\* is the last one polled.
C24_StableBeforeEarlyFailure ==
    /\ StableResponse => (waiter.matched = 4 /\ waiter.state = "success")
    /\ WaitEndedOnAcceptor =>
          /\ waiter.matched # 0
          /\ PollsOfWait = waiter.attempt
          /\ pc # "wait"

C24_Witness ==
    /\ StableResponse
    /\ PostOriginMarker(lastResp, waiter.createdAt)
    /\ waiter.state = "success"
    /\ pc = "done"

-----------------------------------------------------------------------------
(* The wait budget of the three commands *)

\* C25 as stated: the wait of install, upgrade and task has the attempt
\* budget WaiterDelay derives from the command's timeout (none for 0), and not
\* a fixed budget.
C25_WaitBoundedByTimeout ==
    (cmd \in {"install", "upgrade", "task"} /\ waiter # NoWaiter) =>
        waiter.maxAttempts = WaiterDelay(timeout, defaultDelay).maxAttempts

-----------------------------------------------------------------------------
(* The sleep hooks *)

\* the step is one attempt of the wait in progress
PollStep ==
    /\ pc \in {"wait", "waitTasks"}
    /\ waiter.state = "waiting"
    /\ Len(calls') = Len(calls) + 1
    /\ calls'[Len(calls')].op \in {"DescribeServices", "DescribeTasks"}

\* C26: in every attempt of a wait the waiter with its hook, whichever it is,
\* ends up where the same waiter without a hook ends up on the same response
\* (same state, same attempt number, same matched acceptor), the attempt makes
\* exactly one describe call, and no wait ends in a state the hook-less waiter
\* cannot end in.
C26_HooksLeaveWaitAlone ==
    [][PollStep =>
          /\ WithHook(waiter', "none") =
                WaitAttempt(WithHook(waiter, "none"), lastResp', now).w
          /\ waiter'.hook = waiter.hook
          /\ SubSeq(calls', 1, Len(calls)) = calls
          /\ waiter'.state \in {"waiting", "success", "failure", "timeout"}]_vars

C26_Witness ==
    /\ cmd = "upgrade"
    /\ logLevel = "debug"
    /\ waiter.hook = "debug"
    /\ waiter.attempt = 2
    /\ waiter.state = "success"
    /\ output = <<"Sleeping, previous response">>

-----------------------------------------------------------------------------
(* The rollback of upgrade is tried once *)

\* the UpdateService calls of the run, in order
UpdateCalls == SelectSeq(calls, LAMBDA c : c.op = "UpdateService")

\* C27: upgrade makes at most two UpdateService calls: the forward one to the
\* new definition and, only with --rollback and only after the forward deploy
\* returned an error, one back to the old definition; when that one fails too,
\* upgrade returns its error without a third call.
C27_RollbackOnce ==
    cmd = "upgrade" =>
        /\ Len(UpdateCalls) <= 2
        /\ Len(UpdateCalls) >= 1 => UpdateCalls[1].arg = taskDefnArn
        /\ Len(UpdateCalls) = 2 =>
              /\ rollback
              /\ err # Nil
              /\ UpdateCalls[2].arg = oldTaskDefinition
        /\ (pc = "done" /\ rollbackErr # Nil) =>
              /\ Len(UpdateCalls) = 2
              /\ result = Wrap(rollbackErr, "cannot rollback")

C27_Witness ==
    /\ cmd = "upgrade"
    /\ pc = "done"
    /\ Len(UpdateCalls) = 2
    /\ UpdateCalls[2].ok
    /\ rollbackErr # Nil

-----------------------------------------------------------------------------
(* register and --dry-run *)

\* the identifiers of task definitions
Arns == {OldArn, NewArn, GivenArn, JsonArn}

RegisterDone == cmd = "register" /\ pc = "done"

\* C28: register --dry-run makes no gateway call and prints no task definition
\* identifier, and leaves the registered definitions as they were; without
\* --dry-run a register that returns nil has printed exactly one line, the
\* identifier of the definition the gateway registered, and a register that
\* returns an error has printed nothing.
C28_DryRun ==
    /\ (cmd = "register" /\ dryRun) =>
          /\ calls = <<>>
          /\ \A i \in 1..Len(output) : output[i] \notin Arns
          /\ NewArn \notin registered
    /\ (RegisterDone /\ ~dryRun /\ result = Nil) =>
          /\ output = <<taskDefnArn>>
          /\ taskDefnArn = NewArn
          /\ LastCall = Call("RegisterTaskDefinition", TaskDefnFile, TRUE)
          /\ NewArn \in registered
    /\ (RegisterDone /\ result # Nil) => output = <<>>

C28_Witness ==
    /\ RegisterDone
    /\ dryRun
    /\ result = Nil
    /\ output = <<Rendered>>

-----------------------------------------------------------------------------
(* ParseTaskDefinition and templates that fail to render *)

\* the template parses and ParseTaskDefinition was called on it
Rendering == parsed # NotParsed /\ template # Unreadable /\ Parse(template) = ""

\* C29: ParseTaskDefinition returns an error and no task definition when, in
\* strict mode, the template refers to a value that was not provided, and, in
\* any mode, when executing the template fails.
C29_StrictMissingFails ==
    Rendering =>
        /\ (strict /\ \E i \in 1..Len(template) : template[i] = "missing") =>
              (parsed.err # "" /\ parsed.defn = Null)
        /\ Execute(template, strict).err =>
              (parsed.err # "" /\ parsed.defn = Null)

-----------------------------------------------------------------------------
(* The origin timestamp of the stability wait *)

\* the stability waiter in hand was made by the deploy whose output is recorded
DeployWaits == waiter.name = "ServicesStable" /\ deployOutput # NoDeployOutput

\* the positions of the PRIMARY deployments in the recorded output
Primaries ==
    {i \in 1..Len(deployOutput.deployments) : deployOutput.deployments[i].status = "PRIMARY"}

\* C30: the origin of the stability wait is the createdAt (install) or the
\* updatedAt (upgrade) of the first deployment with status PRIMARY in the
\* response of CreateService or UpdateService; it is the local clock value
\* read before the call when, and only when, the response has no PRIMARY
\* deployment.
C30_Origin ==
    DeployWaits =>
        /\ Primaries # {} =>
              \E i \in Primaries :
                  /\ \A j \in Primaries : i <= j
                  /\ waiter.createdAt =
                        deployOutput.deployments[i][IF cmd = "install" THEN "createdAt"
                                                    ELSE "updatedAt"]
        /\ Primaries = {} => waiter.createdAt = deployOutput.clock
        /\ waiter.createdAt = deployOutput.clock => Primaries = {}

C30_Witness ==
    /\ DeployWaits
    /\ cmd = "upgrade"
    /\ Primaries = {2}
    /\ waiter.createdAt > deployOutput.clock
    /\ waiter.createdAt > deployOutput.deployments[2].createdAt
    /\ waiter.state = "success"

-----------------------------------------------------------------------------
(* Which hook a wait gets at each log level *)

\* C31: every waiter has the debug hook at debug level, the progress hook at
\* info level, and no hook in quiet mode, whichever wait it is.
C31_HookByLevel ==
    waiter # NoWaiter =>
        waiter.hook = CASE logLevel = "debug" -> "debug"
                        [] logLevel = "info" -> "progress"
                        [] OTHER -> "none"

-----------------------------------------------------------------------------
(* Compensation after a deploy call that was rejected *)

\* the positions of the CreateService and UpdateService calls in the log
DeployCalls == {i \in 1..Len(calls) : calls[i].op \in {"CreateService", "UpdateService"}}

\* the position of the forward deploy call
ForwardAt == CHOOSE i \in DeployCalls : \A j \in DeployCalls : i <= j

\* the forward CreateService or UpdateService call was rejected, so that no
\* wait started, and the command has returned
ForwardRejected ==
    /\ cmd \in {"install", "upgrade"}
    /\ DeployCalls # {}
    /\ ~calls[ForwardAt].ok
    /\ pc = "done"

\* C32: with --rollback, when the forward CreateService or UpdateService call
\* itself was rejected, the next gateway call is the compensating one,
\* DeleteService for install and UpdateService to the old definition for
\* upgrade; when that call fails its error, wrapped, is what the command
\* returns, and the command returns an error in any case.
C32_CompensatesRejectedDeploy ==
    (ForwardRejected /\ rollback) =>
        /\ Len(calls) > ForwardAt
        /\ LET c == calls[ForwardAt + 1]
           IN  IF cmd = "install"
               THEN /\ c.op = "DeleteService"
                    /\ ~c.ok => result = Wrap(Error("DeleteService failed", ForwardAt + 1),
                                              "cannot rollback install")
               ELSE /\ c.op = "UpdateService"
                    /\ c.arg = oldTaskDefinition
                    /\ ~c.ok => result = Wrap(Error("UpdateService failed", ForwardAt + 1),
                                              "cannot rollback")
        /\ result # Nil

C32_Witness ==
    /\ ForwardRejected
    /\ rollback
    /\ cmd = "install"
    /\ service.status = "NONE"
    /\ calls[ForwardAt + 1].op = "DeleteService"
    /\ result.wrap = "cannot rollback install"

-----------------------------------------------------------------------------
(* Rollback and a definition the caller supplied *)

\* the deploy of a definition given by --task-definition-arn, which the
\* gateway had registered, failed and the command has returned
GivenDeployFailed ==
    /\ cmd \in {"install", "upgrade"}
    /\ ArnGiven
    /\ \E i \in 1..Len(calls) : calls[i] = Call("DescribeTaskDefinition", taskDefinitionArn, TRUE)
    /\ err # Nil
    /\ pc = "done"

\* C33: when the deploy of a definition given by --task-definition-arn fails
\* with --rollback, the command has made no DeregisterTaskDefinition call for
\* that definition and it is still registered when the command returns.
C33_RollbackKeepsGivenDefinition ==
    (GivenDeployFailed /\ rollback) =>
        /\ \A i \in 1..Len(calls) :
              ~(calls[i].op = "DeregisterTaskDefinition" /\ calls[i].arg = taskDefinitionArn)
        /\ taskDefinitionArn \in registered

-----------------------------------------------------------------------------
(* An upgrade whose --task-definition-arn names the definition the service   *)
(* already runs.                                                             *)

InitSameDefinition ==
    /\ Invocation({"info"}, {OldArn})
    /\ cmd = "upgrade"
    /\ taskDefinitionArn = OldArn

NextSameDefinition ==
    \/ RunE
    \/ DescribeServices
    \/ DescribeTaskDefinition
    \/ UpdateService
    \/ PollRound
    \/ Deployed
    \/ RolledBack
    \/ DeregisterTaskDefinition

SpecSameDefinition == InitSameDefinition /\ [][NextSameDefinition]_vars

\* C34: when upgrade has returned, the definition the service is set to was
\* not deregistered by the command: no successful DeregisterTaskDefinition
\* call names it, whether --task-definition-arn names a new definition or the
\* one the service already ran
C34_RunningDefinitionKept ==
    (cmd = "upgrade" /\ pc = "done" /\ service.status # "NONE") =>
        \A i \in 1..Len(calls) :
            ~(calls[i] = Call("DeregisterTaskDefinition", service.taskDefinition, TRUE))

\* C35: for every timeout > 0 and base delay d > 0, timeout < d included,
\* WaiterDelay configures at least 2 attempts, and every delay its delay
\* function returns for the attempts 1..maxAttempts-1, and every sleep the
\* wait performs, is strictly positive and at most d
C35_DelaysPositiveAndBounded ==
    timeout > 0 =>
        /\ waiter.maxAttempts >= 2
        /\ \A a \in 1..(waiter.maxAttempts - 1) :
              delayFunc(waiter, a) > 0 /\ delayFunc(waiter, a) <= waiter.defaultDelay
        /\ \A i \in 1..Len(sleeps) : sleeps[i] > 0 /\ sleeps[i] <= waiter.defaultDelay

C35_Witness ==
    /\ timeout = 1
    /\ waiter.defaultDelay = MaxWaitDelay
    /\ waiter.maxAttempts = 2
    /\ waiter.state = "timeout"
    /\ sleeps = <<1>>

\* the response to run's DescribeServices call has an entry whose name or ARN
\* is the requested name
EntryReturned ==
    /\ describeServicesOutput # NoReply
    /\ \E i \in 1..Len(describeServicesOutput.services) :
          \/ describeServicesOutput.services[i].serviceName = ServiceName
          \/ describeServicesOutput.services[i].serviceArn = ServiceName

\* C36: install's existence check ignores the service status: whenever
\* DescribeServices returns an entry whose name or ARN is the requested name,
\* an INACTIVE one included, install returns the already-exists error and
\* makes no RegisterTaskDefinition and no CreateService call
C36_ExistenceIgnoresStatus ==
    (cmd = "install" /\ EntryReturned) =>
        /\ pc = "done"
        /\ result = Error("Service already exists in cluster", 1)
        /\ calls = <<Call("DescribeServices", ServiceName, TRUE)>>
        /\ ~HasCall("RegisterTaskDefinition")
        /\ ~HasCall("CreateService")

C36_Witness ==
    /\ cmd = "install"
    /\ EntryReturned
    /\ describeServicesOutput.services[1].status = "INACTIVE"
    /\ service.status = "INACTIVE"
    /\ result.msg = "Service already exists in cluster"

\* the rollback wait of an upgrade is in progress or over
UpgradeRollbackWait ==
    cmd = "upgrade" /\ waiter # NoWaiter /\ waiter.phase = "rollback"

\* the failure-marker events emitted before the last UpdateService call
MarkersBeforeUpdate ==
    {e \in events : Contains(e.message, "unable") /\ e.createdAt <= deployOutput.clock}

\* C37: the rollback wait of an upgrade takes its origin from the response of
\* the rollback UpdateService call (the local time of the call when the
\* response names no PRIMARY deployment), so the origin is not earlier than
\* that call; the failure-marker events emitted before it are not after the
\* origin, and a response whose markers are all from before the rollback
\* update does not end the rollback wait through the early-failure acceptor
C37_RollbackOriginFresh ==
    UpgradeRollbackWait =>
        /\ waiter.createdAt =
              PrimaryTime(deployOutput.deployments, "updatedAt", deployOutput.clock)
        /\ waiter.createdAt >= deployOutput.clock
        /\ \A e \in MarkersBeforeUpdate : e.createdAt <= waiter.createdAt
        /\ (lastResp # NoResp /\ ~PostOriginMarker(lastResp, deployOutput.clock)) =>
              /\ waiter.matched # 5
              /\ waiter.state = "failure" => waiter.matched \in 1..4

C37_Witness ==
    /\ UpgradeRollbackWait
    /\ lastResp # NoResp
    /\ \E e \in MarkersBeforeUpdate : e.createdAt > TicksPerSecond
    /\ ~PostOriginMarker(lastResp, deployOutput.clock)
    /\ waiter.state = "success"
    /\ pc = "done"

\* the response has an event with the failure marker in a later Unix second
\* than origin
LaterSecondMarker(resp, origin) ==
    \E i \in 1..Len(resp.services) : \E e \in resp.services[i].events :
        Contains(e.message, "unable") /\ Unix(e.createdAt) > Unix(origin)

\* C38: the early-failure cutoff is the origin truncated to Unix seconds: a
\* poll of the stability waiter whose response has a failure-marker event in
\* a later second than the origin ends the wait with a failure, and one whose
\* markers are all in the origin's second or earlier, those after the origin
\* included, does not match the early-failure acceptor
C38_WholeSecondCutoff ==
    StablePolled =>
        /\ LaterSecondMarker(lastResp, waiter.createdAt) => waiter.state = "failure"
        /\ ~LaterSecondMarker(lastResp, waiter.createdAt) => waiter.matched # 5

\* upgrade without --rollback has returned after its forward wait failed
UpgradeWaitFailedNoRollback ==
    /\ cmd = "upgrade" /\ pc = "done" /\ ~rollback
    /\ waiter # NoWaiter /\ err # Nil

====
